---- MODULE Spec2Model ----
(***************************************************************************)
(* Workflow engine of timfeid/midnight (game/src/workflow).                *)
(*                                                                         *)
(* The WorkflowManager is modelled as a state machine: the variables are   *)
(* its mutex-protected maps, and every public operation is an operator     *)
(* that maps a manager value M (a record of those maps) to the manager     *)
(* value after the call and the value the call returns.  An action of the  *)
(* model is one call of one operation.                                     *)
(*                                                                         *)
(* The night scheduler (game/src/gamerunner.rs) is a second state machine  *)
(* over the same manager: RunnerSpec starts from a game, takes the steps   *)
(* of GameRunner::run between its lock acquisitions, and lets the event    *)
(* subscribers call submit_action and process_workflow_action in between.  *)
(*                                                                         *)
(* Representation:                                                         *)
(*  - Option<T>: the value None stands for Option::None.                   *)
(*  - HashMap<String, V>: a function whose domain is the set of keys.      *)
(*  - serde_json::Value: a record [t, v] with t in {"str","obj","arr"}.    *)
(*  - a dotted path "a.b" is the sequence <<"a","b">> of its segments.     *)
(*  - Ulid::new(): the next value of the counter next_ulid.                *)
(***************************************************************************)
EXTENDS Integers, Sequences, FiniteSets, TLC

VARIABLES
    workflows,                \* WorkflowManager.workflows
    active_workflows,         \* WorkflowManager.active_workflows
    server_action_handlers,   \* WorkflowManager.server_action_handlers (keys)
    external_server_actions,  \* WorkflowManager.external_server_actions
    waiting_for_response,     \* WorkflowManager.waiting_for_response
    waiting_for_predicate,    \* WorkflowManager.waiting_for_predicate
    next_ulid,                \* source of fresh instance ids
    last,                     \* the last call, see Call
    calls,                    \* the number of calls made so far
    suspended_at,             \* history: the node each waiter was suspended on
    game,                     \* GameRunner.game: players, middles, map order
    stages,                   \* GameRunner.stages
    game_events,              \* the turn events sent on GameRunner.event_sender
    run,                      \* where GameRunner::run is, and its popped stage
    register_calls,           \* history: invocations of each role's register hook
    subscribers,              \* the calls the event subscribers have made
    runner_lock,              \* who holds the mutex around the GameRunner
    game_lock,                \* who holds GameRunner.game's mutex
    bus,                      \* the events handed to EventManager::emit_event
    tasks,                    \* the calls in flight
    external_action_responses,\* WorkflowService.external_action_responses (tokens)
    locks                     \* the task that holds each mutex of the engine

runner_vars == <<game, stages, game_events, run, register_calls, subscribers,
                 runner_lock, game_lock>>

task_vars == <<bus, tasks, external_action_responses, locks>>

vars == <<workflows, active_workflows, server_action_handlers,
          external_server_actions, waiting_for_response,
          waiting_for_predicate, next_ulid, last, calls, suspended_at,
          game, stages, game_events, run, register_calls, subscribers,
          runner_lock, game_lock, bus, tasks, external_action_responses,
          locks>>

----------------------------------------------------------------------------
(* Bounds of the model *)

MaxInstances == 2
MaxHistory == 1
MaxDepth == 1
MaxCalls == 7
MaxTrip == 2

----------------------------------------------------------------------------
(* Option, HashMap and JSON values *)

None == "None"

EmptyMap == [k \in {} |-> None]

Insert(m, k, v) == [x \in (DOMAIN m) \cup {k} |-> IF x = k THEN v ELSE m[x]]

Extend(m, n) ==
    [x \in (DOMAIN m) \cup (DOMAIN n) |-> IF x \in DOMAIN n THEN n[x] ELSE m[x]]

Remove(m, k) == [x \in (DOMAIN m) \ {k} |-> m[x]]

JStr(s) == [t |-> "str", v |-> s]
JArr(s) == [t |-> "arr", v |-> s]
JObj(m) == [t |-> "obj", v |-> m]

\* serde_json::to_value(&HashMap<String, Value>) is the JSON object of the map
ToValue(m) == JObj(m)

Last(s) == s[Len(s)]
\* the vector after last() instead of pop(): nothing is removed
Front_unpopped(s) == s

Front(s) == SubSeq(s, 1, Len(s) - 1)

----------------------------------------------------------------------------
(* Dotted lookup and node conditions *)

Some(x) == [some |-> TRUE, v |-> x]
Nothing == [some |-> FALSE, v |-> JStr("")]

RECURSIVE Descend_through_scalars(_, _, _)
\* the loop of get_nested_value ending at the first value that is no
\* object, and yielding it
Descend_through_scalars(current, path, i) ==
    IF i > Len(path) THEN Some(current)
    ELSE IF current.t = "obj"
         THEN IF path[i] \in DOMAIN current.v
              THEN Descend_through_scalars(current.v[path[i]], path, i + 1)
              ELSE Nothing
         ELSE Some(current)

RECURSIVE Descend(_, _, _)
\* the loop of get_nested_value over the segments after the first
Descend(current, path, i) ==
    IF i > Len(path) THEN Some(current)
    ELSE IF current.t = "obj"
         THEN IF path[i] \in DOMAIN current.v
              THEN Descend(current.v[path[i]], path, i + 1)
              ELSE Nothing
         ELSE Nothing

get_nested_value(map, dotted_path) ==
    IF dotted_path[1] \in DOMAIN map
    THEN Descend(map[dotted_path[1]], dotted_path, 2)
    ELSE Nothing

RECURSIVE JEq(_, _)
\* the equality of serde_json::Value: the same kind of value, and equal
\* strings, equal elements in order, or equal members
JEq(x, y) ==
    /\ x.t = y.t
    /\ CASE x.t = "str" -> x.v = y.v
         [] x.t = "arr" -> /\ Len(x.v) = Len(y.v)
                           /\ \A k \in DOMAIN x.v : JEq(x.v[k], y.v[k])
         [] x.t = "obj" -> /\ DOMAIN x.v = DOMAIN y.v
                           /\ \A k \in DOMAIN x.v : JEq(x.v[k], y.v[k])

NoCondition == [tag |-> "None", field |-> <<"">>, value |-> JStr("")]
Always == [tag |-> "Always", field |-> <<"">>, value |-> JStr("")]
ResponseExists(f) == [tag |-> "ResponseExists", field |-> f, value |-> JStr("")]
ResponseEquals(f, val) == [tag |-> "ResponseEquals", field |-> f, value |-> val]
ResponseListNotEmpty(f) ==
    [tag |-> "ResponseListNotEmpty", field |-> f, value |-> JStr("")]

evaluate_node_condition(node, state) ==
    LET c == node.condition
        found == get_nested_value(state.responses, c.field)
    IN CASE c.tag = "ResponseExists" -> found.some
         [] c.tag = "ResponseEquals" ->
                \E value \in {found}, expected \in {c.value} :
                   value.some /\ JEq(value.v, expected)
         [] c.tag = "ResponseListNotEmpty" ->
                found.some /\ found.v.t = "arr" /\ Len(found.v.v) > 0
         [] OTHER -> TRUE

RECURSIVE FirstValidChild(_, _, _, _)
\* the loop of find_valid_child_node over workflow.nodes.values(), taken in
\* the iteration order of the HashMap; None when the loop falls through
FirstValidChild(workflow, parent_node, state, i) ==
    IF i > Len(workflow.nodes_iter) THEN None
    ELSE LET child_node == workflow.nodes[workflow.nodes_iter[i]]
         IN IF /\ child_node.parent_id # None
               /\ child_node.parent_id = parent_node.id
               /\ evaluate_node_condition(child_node, state)
            THEN child_node.id
            ELSE FirstValidChild(workflow, parent_node, state, i + 1)

\* Ok(child.id), or None for Err(NodeNotFound)
find_valid_child_node(workflow, parent_node, state) ==
    FirstValidChild(workflow, parent_node, state, 1)

----------------------------------------------------------------------------
(* Definitions the model registers *)

Action(id, type, target) == [id |-> id, action_type |-> type, target |-> target]

Node(id, parent, cond, actions) ==
    [id |-> id, parent_id |-> parent, condition |-> cond, actions |-> actions]

\* a parent workflow: it runs a server action on its first node and has two
\* conditional children, as the witch and spy workflows do
ParentNodes ==
    [start |-> Node("start", None, NoCondition,
                    << Action("run", "RunServerAction", "sa"),
                       Action("next", "NextNode", None),
                       Action("again", "NextNode", "start"),
                       Action("submit", "Submit", None) >>),
     got   |-> Node("got", "start", ResponseExists(<<"k">>),
                    << Action("back", "PreviousNode", None),
                       Action("cancel", "Cancel", None) >>),
     other |-> Node("other", "start", Always,
                    << Action("back", "PreviousNode", None),
                       Action("submit", "Submit", None) >>)]

ParentDefinition ==
    [id |-> "parent", initial_node_id |-> "start", nodes |-> ParentNodes,
     node_order |-> <<"start", "got", "other">>,
     responses |-> EmptyMap,
     server_actions |-> [sa |-> [id |-> "sa"]]]

\* a later version of the same workflow, registered again by its owner:
\* the node "got" is gone and "start" offers no actions any more
ParentDefinition2 ==
    [id |-> "parent", initial_node_id |-> "start",
     nodes |-> [start |-> Node("start", None, NoCondition, << >>),
                other |-> ParentNodes["other"]],
     node_order |-> <<"start", "other">>,
     responses |-> EmptyMap,
     server_actions |-> [sa |-> [id |-> "sa"]]]

\* a nested workflow: one question, then a leaf node without actions
NestedNodes ==
    [ask  |-> Node("ask", None, NoCondition,
                   << Action("submit", "Submit", None),
                      Action("next", "NextNode", "leaf") >>),
     leaf |-> Node("leaf", "ask", NoCondition, << >>)]

NestedDefinition ==
    [id |-> "nested", initial_node_id |-> "ask", nodes |-> NestedNodes,
     node_order |-> <<"ask", "leaf">>,
     responses |-> EmptyMap,
     server_actions |-> EmptyMap]

\* a definition whose initial_node_id names no node of it
BrokenDefinition ==
    [id |-> "broken", initial_node_id |-> "nowhere",
     nodes |-> [leaf |-> NestedNodes["leaf"]],
     node_order |-> <<"leaf">>,
     responses |-> EmptyMap,
     server_actions |-> EmptyMap]

CreateDefinitions ==
    {ParentDefinition, ParentDefinition2, NestedDefinition, BrokenDefinition}

Owners == {"bot"}
Users == {"seer"}
HandlerIds == {"sa"}
InputMaps == {EmptyMap, [x |-> JStr("a")]}

Permutation(S) ==
    {p \in [1..Cardinality(S) -> S] : \A a \in S : \E i \in DOMAIN p : p[i] = a}

\* The orders in which the HashMap of nodes can be iterated.  The only reader
\* of the order is find_valid_child_node, which skips nodes without a parent,
\* so of the orders that differ in the places of those nodes one is kept:
\* the one that yields them first, in the order of the document.
IterationOrders(workflow) ==
    LET roots == SelectSeq(workflow.node_order,
                           LAMBDA n : workflow.nodes[n].parent_id = None)
        others == {n \in DOMAIN workflow.nodes : workflow.nodes[n].parent_id # None}
    IN {roots \o p : p \in Permutation(others)}

----------------------------------------------------------------------------
(* The manager value and the results of its operations *)

Mgr ==
    [workflows |-> workflows,
     active_workflows |-> active_workflows,
     server_action_handlers |-> server_action_handlers,
     external_server_actions |-> external_server_actions,
     waiting_for_response |-> waiting_for_response,
     waiting_for_predicate |-> waiting_for_predicate,
     next_ulid |-> next_ulid]

Ok(tag, val) == [ok |-> TRUE, tag |-> tag, val |-> val]
Err(tag) == [ok |-> FALSE, tag |-> tag, val |-> None]
\* an error variant that carries a message, as ServerActionFailed(String)
\* an error that drops the message it is given
ErrMsg_without_message(tag, message) == [ok |-> FALSE, tag |-> tag, val |-> None]

ErrMsg(tag, message) == [ok |-> FALSE, tag |-> tag, val |-> message]

\* what a call leaves behind: the manager, the returned value, the events
\* handed to EventManager::emit_event, in order
Return(M, res, events) == [M |-> M, res |-> res, events |-> events]

WorkflowStarted(instance_id) == <<"WorkflowStarted", instance_id>>
WorkflowUpdated(instance_id) == <<"WorkflowUpdated", instance_id>>

NoResource == [some |-> FALSE]

get_workflow_resource(M, instance_id) ==
    IF instance_id \notin DOMAIN M.active_workflows THEN NoResource
    ELSE LET state == M.active_workflows[instance_id]
         IN IF state.workflow_id \notin DOMAIN M.workflows THEN NoResource
            ELSE LET workflow_def == M.workflows[state.workflow_id]
                 IN IF state.current_node_id \notin DOMAIN workflow_def.nodes
                    THEN NoResource
                    ELSE LET current_node ==
                                 workflow_def.nodes[state.current_node_id]
                         IN [some |-> TRUE,
                             instance_id |-> instance_id,
                             current_node_id |-> current_node.id,
                             workflow_id |-> state.workflow_id,
                             responses |-> state.responses,
                             completed |-> IF state.completed THEN TRUE
                                           ELSE current_node.actions = << >>,
                             actions |-> current_node.actions,
                             user_id |-> state.user_id,
                             waiting |-> state.waiting]

update_state(M, instance_id, state) ==
    IF instance_id \in DOMAIN M.active_workflows
    THEN [M |-> [M EXCEPT !.active_workflows[instance_id] = state], ok |-> TRUE]
    ELSE [M |-> M, ok |-> FALSE]

final_workflow_id(user_id, raw_id) == "user-" \o user_id \o "-wf-" \o raw_id
final_action_id(user_id, action_id) == "user-" \o user_id \o "-sa-" \o action_id

register_server_action(M, action_id) ==
    Return([M EXCEPT !.server_action_handlers = @ \cup {action_id}],
           Ok("Unit", None), << >>)

\* register_external_server_action keeping the id as it was given
register_external_server_action_raw(M, user_id, action_id) ==
    LET final_id == final_action_id(user_id, action_id)
    IN Return([M EXCEPT !.external_server_actions = @ \cup {<<user_id, action_id>>}],
              Ok("Id", final_id), << >>)

register_external_server_action(M, user_id, action_id) ==
    LET final_id == final_action_id(user_id, action_id)
    IN Return([M EXCEPT !.external_server_actions = @ \cup {<<user_id, final_id>>}],
              Ok("Id", final_id), << >>)

\* the loop over workflow.server_actions that lets every action pass
UnregisteredActions_unchecked(M, user_id, workflow) == {}

\* the ids at which the loop over workflow.server_actions.values() can
\* return: those that are no key of the handlers and do not form, with the
\* user, an entry of external_server_actions
UnregisteredActions(M, user_id, workflow) ==
    {workflow.server_actions[key].id : key \in
        {k \in DOMAIN workflow.server_actions :
            /\ workflow.server_actions[k].id \notin M.server_action_handlers
            /\ <<user_id, workflow.server_actions[k].id>>
                   \notin M.external_server_actions}}

\* format!("Server action '{}' not registered.", action.id)
NotRegistered(action_id) == "Server action '" \o action_id \o "' not registered."

\* nodes_iter is the order in which the HashMap of the stored definition
\* yields its nodes.  The loop returns at the first unregistered action it
\* meets; the definitions of the model declare at most one server action.
register_workflow_definition(M, user_id, workflow, nodes_iter) ==
    IF UnregisteredActions(M, user_id, workflow) # {}
    THEN Return(M, ErrMsg("ServerActionFailed",
                          NotRegistered(CHOOSE id \in
                              UnregisteredActions(M, user_id, workflow) : TRUE)),
                << >>)
    ELSE LET definition ==
                 [id |-> workflow.id,
                  responses |-> workflow.responses,
                  owner_id |-> user_id,
                  initial_node_id |-> workflow.initial_node_id,
                  nodes |-> workflow.nodes,
                  nodes_iter |-> nodes_iter,
                  server_actions |-> workflow.server_actions]
             final_id == final_workflow_id(user_id, workflow.id)
         IN IF final_id \in DOMAIN M.workflows
            THEN IF M.workflows[final_id].owner_id = user_id
                 THEN Return([M EXCEPT !.workflows[final_id] = definition],
                             Ok("Id", final_id), << >>)
                 ELSE Return(M, ErrMsg("ServerActionFailed",
                                    "You are not the owner of that workflow."),
                             << >>)
            ELSE Return([M EXCEPT !.workflows = Insert(@, final_id, definition)],
                        Ok("Id", final_id), << >>)

start_workflow(M, workflow_id, user_id, inputs) ==
    IF workflow_id \notin DOMAIN M.workflows
    THEN Return(M, Err("WorkflowNotFound"), << >>)
    ELSE LET workflow == M.workflows[workflow_id]
             instance_id == M.next_ulid
             state == [workflow_id |-> workflow_id,
                       user_id |-> user_id,
                       current_node_id |-> workflow.initial_node_id,
                       node_history |-> << >>,
                       responses |-> Extend(workflow.responses, inputs),
                       completed |-> FALSE,
                       waiting |-> FALSE]
             M1 == [M EXCEPT !.active_workflows = Insert(@, instance_id, state),
                             !.next_ulid = @ + 1]
         IN IF get_workflow_resource(M1, instance_id).some
            THEN Return(M1, Ok("Id", instance_id),
                        << WorkflowStarted(instance_id) >>)
            ELSE Return(M1, Err("WorkflowNotFound"), << >>)

show_node(M, instance_id, target_node_id) ==
    IF instance_id \notin DOMAIN M.active_workflows
    THEN Return(M, Err("WorkflowInstanceNotFound"), << >>)
    ELSE LET state == M.active_workflows[instance_id]
         IN IF state.workflow_id \notin DOMAIN M.workflows
            THEN Return(M, Err("NodeNotFound"), << >>)
            ELSE IF target_node_id \notin DOMAIN M.workflows[state.workflow_id].nodes
            THEN Return(M, Err("ServerActionFailed"), << >>)
            ELSE LET M1 == update_state(M, instance_id,
                               [state EXCEPT !.current_node_id = target_node_id]).M
                 IN IF get_workflow_resource(M1, instance_id).some
                    THEN Return(M1, Ok("Unit", None),
                                << WorkflowUpdated(instance_id) >>)
                    ELSE Return(M1, Err("WorkflowNotFound"), << >>)

----------------------------------------------------------------------------
(* process_action *)

\* actions.iter().find(|a| a.id == action_id): index of the first match, or 0
FindAction(actions, action_id) ==
    IF \E i \in DOMAIN actions : actions[i].id = action_id
    THEN CHOOSE i \in DOMAIN actions :
             /\ actions[i].id = action_id
             /\ \A j \in DOMAIN actions : actions[j].id = action_id => i <= j
    ELSE 0

\* the match on action.action_type: the state after the arm and its value
Dispatch(M, workflow, current_node, action, state) ==
    CASE action.action_type = "NextNode" ->
            IF action.target # None
            THEN IF action.target \in DOMAIN workflow.nodes
                 THEN [state |-> [state EXCEPT
                                    !.node_history = Append(@, state.current_node_id),
                                    !.current_node_id = action.target],
                       res |-> Ok("ShowNode", workflow.nodes[action.target].id)]
                 ELSE [state |-> state, res |-> Err("NodeNotFound")]
            ELSE LET valid_child ==
                         find_valid_child_node(workflow, current_node, state)
                 IN IF valid_child = None
                    THEN [state |-> state, res |-> Err("NodeNotFound")]
                    ELSE [state |-> [state EXCEPT
                                       !.node_history = Append(@, state.current_node_id),
                                       !.current_node_id = valid_child],
                          res |-> Ok("ShowNode", valid_child)]
      [] action.action_type = "PreviousNode" ->
            IF state.node_history # << >>
            THEN LET previous_node_id == Last(state.node_history)
                 IN IF previous_node_id \in DOMAIN workflow.nodes
                    THEN [state |-> [state EXCEPT
                                       !.node_history = Front(@),
                                       !.current_node_id = previous_node_id],
                          res |-> Ok("ShowNode", previous_node_id)]
                    ELSE [state |-> state, res |-> Err("NodeNotFound")]
            ELSE [state |-> state, res |-> Err("InvalidState")]
      [] action.action_type = "Submit" ->
            [state |-> [state EXCEPT !.completed = TRUE],
             res |-> Ok("WorkflowCompleted", None)]
      [] action.action_type = "Cancel" ->
            [state |-> [state EXCEPT !.completed = TRUE],
             res |-> Ok("WorkflowCancelled", None)]
      [] action.action_type = "RunServerAction" ->
            IF action.target # None
            THEN LET action_id ==
                         IF action.target \in DOMAIN workflow.server_actions
                         THEN workflow.server_actions[action.target].id
                         ELSE action.target
                 IN IF \E e \in M.external_server_actions : e[2] = action_id
                    THEN [state |-> state,
                          res |-> Ok("ExternalServerActionStarted", action_id)]
                    ELSE IF action_id \in M.server_action_handlers
                    THEN [state |-> state,
                          res |-> Ok("ServerActionStarted", action_id)]
                    ELSE [state |-> state, res |-> Err("ServerActionNotFound")]
            ELSE IF action.id \in DOMAIN workflow.server_actions
                 THEN [state |-> state,
                       res |-> Ok("ServerActionStarted", action.id)]
                 ELSE [state |-> state, res |-> Err("ServerActionNotFound")]
      [] action.action_type = "StartWorkflow" ->
            IF action.target # None /\ action.target \in DOMAIN M.workflows
            THEN [state |-> state, res |-> Ok("StartNewWorkflow", action.target)]
            ELSE [state |-> state, res |-> Err("WorkflowNotFound")]

\* process_action_unchecked dispatching on the stored state, without the
\* merge of the inputs
process_action_without_merge(M, instance_id, action_id, inputs) ==
    LET state == M.active_workflows[instance_id]
    IN IF state.workflow_id \notin DOMAIN M.workflows
       THEN Return(M, Err("WorkflowNotFound"), << >>)
       ELSE LET workflow == M.workflows[state.workflow_id]
            IN IF state.current_node_id \notin DOMAIN workflow.nodes
               THEN Return(M, Err("NodeNotFound"), << >>)
               ELSE LET current_node == workflow.nodes[state.current_node_id]
                        i == FindAction(current_node.actions, action_id)
                    IN IF i = 0
                       THEN Return(M, Err("ActionNotFound"), << >>)
                       ELSE LET merged == [state EXCEPT
                                             !.responses = Extend(@, inputs)]
                                d == Dispatch(M, workflow, current_node,
                                              current_node.actions[i], state)
                            IN IF d.res.ok
                               THEN Return(update_state(M, instance_id, d.state).M,
                                           d.res, << >>)
                               ELSE Return(M, d.res, << >>)

process_action_unchecked(M, instance_id, action_id, inputs) ==
    LET state == M.active_workflows[instance_id]
    IN IF state.workflow_id \notin DOMAIN M.workflows
       THEN Return(M, Err("WorkflowNotFound"), << >>)
       ELSE LET workflow == M.workflows[state.workflow_id]
            IN IF state.current_node_id \notin DOMAIN workflow.nodes
               THEN Return(M, Err("NodeNotFound"), << >>)
               ELSE LET current_node == workflow.nodes[state.current_node_id]
                        i == FindAction(current_node.actions, action_id)
                    IN IF i = 0
                       THEN Return(M, Err("ActionNotFound"), << >>)
                       ELSE LET merged == [state EXCEPT
                                             !.responses = Extend(@, inputs)]
                                d == Dispatch(M, workflow, current_node,
                                              current_node.actions[i], merged)
                            IN IF d.res.ok
                               THEN Return(update_state(M, instance_id, d.state).M,
                                           d.res, << >>)
                               ELSE Return(M, d.res, << >>)

\* process_action without the test of state.completed
process_action_ignoring_completed(M, instance_id, action_id, inputs) ==
    IF instance_id \notin DOMAIN M.active_workflows
    THEN Return(M, Err("WorkflowInstanceNotFound"), << >>)
    ELSE process_action_unchecked(M, instance_id, action_id, inputs)

process_action(M, instance_id, action_id, inputs) ==
    IF instance_id \notin DOMAIN M.active_workflows
    THEN Return(M, Err("WorkflowInstanceNotFound"), << >>)
    ELSE IF M.active_workflows[instance_id].completed
    THEN Return(M, Err("WorkflowAlreadyCompleted"), << >>)
    ELSE process_action_unchecked(M, instance_id, action_id, inputs)

----------------------------------------------------------------------------
(* Server actions *)

NextPage(page_id) == [tag |-> "NextPage", page_id |-> page_id]
UpdateResponses(map) == [tag |-> "UpdateResponses", responses |-> map]
CompleteWorkflow(map, message) ==
    [tag |-> "CompleteWorkflow", responses |-> map, message |-> message]
CancelWorkflow == [tag |-> "CancelWorkflow"]
StartNewWorkflow(workflow_id, inputs) ==
    [tag |-> "StartNewWorkflow", workflow_id |-> workflow_id, inputs |-> inputs]
StartAndWaitWorkflow(definition_id, inputs, inject_response_as) ==
    [tag |-> "StartAndWaitWorkflow", definition_id |-> definition_id,
     inputs |-> inputs, inject_response_as |-> inject_response_as]
ByUserId(user_id) == [tag |-> "ByUserId", user_id |-> user_id]
WaitForPredicate(predicate, inject_response_as) ==
    [tag |-> "WaitForPredicate", predicate |-> predicate,
     inject_response_as |-> inject_response_as]
\* the handler's future resolves to Err(e); message is e.to_string()
HandlerError == [tag |-> "Error", message |-> "boom"]

\* the state is the caller's local copy; the suspension tables and the
\* instance store are the manager's
process_server_action_results(M, result, workflow_definition, workflow_id, state) ==
    CASE result.tag = "WaitForPredicate" ->
            [M |-> [M EXCEPT !.waiting_for_predicate =
                        Insert(@, workflow_id,
                               <<result.predicate, result.inject_response_as>>)],
             state |-> [state EXCEPT !.waiting = TRUE],
             res |-> Ok("Bool", TRUE)]
      [] result.tag = "StartAndWaitWorkflow" ->
            LET started == start_workflow(M, result.definition_id,
                                          state.user_id, result.inputs)
            IN IF started.res.ok
               THEN [M |-> [started.M EXCEPT !.waiting_for_response =
                               Insert(@, started.res.val,
                                      <<workflow_id, result.inject_response_as>>)],
                     state |-> [state EXCEPT !.waiting = TRUE],
                     res |-> Ok("Bool", TRUE),
                     events |-> started.events]
               ELSE [M |-> started.M, state |-> state,
                     res |-> Err("WorkflowNotFound"),
                     events |-> started.events]
      [] result.tag = "NextPage" ->
            IF result.page_id \in DOMAIN workflow_definition.nodes
            THEN [M |-> M,
                  state |-> [state EXCEPT
                               !.node_history = Append(@, state.current_node_id),
                               !.current_node_id = result.page_id],
                  res |-> Ok("Bool", TRUE)]
            ELSE [M |-> M, state |-> state, res |-> Err("NodeNotFound")]
      [] result.tag = "UpdateResponses" ->
            LET merged == [state EXCEPT !.responses = Extend(@, result.responses)]
            IN IF merged.current_node_id \notin DOMAIN workflow_definition.nodes
               THEN [M |-> M, state |-> merged, res |-> Err("NodeNotFound")]
               ELSE LET valid_child ==
                            find_valid_child_node(workflow_definition,
                                workflow_definition.nodes[merged.current_node_id],
                                merged)
                    IN IF valid_child = None
                       THEN [M |-> M, state |-> merged, res |-> Err("NodeNotFound")]
                       ELSE [M |-> M,
                             state |-> [merged EXCEPT
                                          !.node_history =
                                              Append(@, merged.current_node_id),
                                          !.current_node_id = valid_child],
                             res |-> Ok("Bool", TRUE)]
      [] result.tag = "CompleteWorkflow" ->
            [M |-> M,
             state |-> [state EXCEPT !.responses = Extend(@, result.responses),
                                     !.completed = TRUE],
             res |-> Ok("Bool", TRUE)]
      [] OTHER -> [M |-> M, state |-> state, res |-> Ok("Bool", FALSE)]

EventsOf(r) == IF "events" \in DOMAIN r THEN r.events ELSE << >>

\* outcome is what the handler's future resolves to: a ServerActionResult
\* or HandlerError
execute_server_action(M, instance_id, workflow_id, action_id, outcome) ==
    IF action_id \notin M.server_action_handlers
    THEN Return(M, Err("ServerActionNotFound"), << >>)
    ELSE IF workflow_id \notin DOMAIN M.workflows
    THEN Return(M, Err("WorkflowNotFound"), << >>)
    ELSE IF instance_id \notin DOMAIN M.active_workflows
    THEN Return(M, Err("WorkflowNotFound"), << >>)
    ELSE IF outcome.tag = "Error"
    THEN Return(M, ErrMsg("ServerActionFailed", outcome.message), << >>)
    ELSE LET applied == process_server_action_results(M, outcome,
                            M.workflows[workflow_id], instance_id,
                            M.active_workflows[instance_id])
         IN IF ~applied.res.ok
            THEN Return(applied.M, applied.res, EventsOf(applied))
            ELSE LET M1 == update_state(applied.M, instance_id, applied.state).M
                 IN IF applied.res.val
                    THEN IF get_workflow_resource(M1, instance_id).some
                         THEN Return(M1, Ok("Result", outcome.tag),
                                     EventsOf(applied) \o
                                         << WorkflowUpdated(instance_id) >>)
                         ELSE Return(M1, Err("WorkflowNotFound"),
                                     EventsOf(applied))
                    ELSE Return(M1, Ok("Result", outcome.tag), EventsOf(applied))

----------------------------------------------------------------------------
(* WorkflowService *)

\* WorkflowService::get_workflow_resource: NotFound when the instance is
\* not stored, InternalError when it has no resource
service_get_workflow_resource(M, instance_id) ==
    IF instance_id \notin DOMAIN M.active_workflows THEN Err("NotFound")
    ELSE LET resource == get_workflow_resource(M, instance_id)
         IN IF resource.some THEN Ok("Resource", resource)
            ELSE Err("InternalError")

\* WorkflowService::start_workflow
service_start_workflow(M, workflow_id, user_id, inputs) ==
    LET started == start_workflow(M, workflow_id, user_id, inputs)
    IN IF ~started.res.ok THEN started
       ELSE Return(started.M,
                   service_get_workflow_resource(started.M, started.res.val),
                   started.events)

\* WorkflowService::process_action: the manager's process_action, then the
\* step its result asks for, then the resource of the instance.  outcome is
\* what the handler returns if a server action is executed.  The task that
\* an external server action spawns is not part of the call.
service_process_action(M, instance_id, action_id, inputs, outcome) ==
    LET action == process_action(M, instance_id, action_id, inputs)
    IN IF ~action.res.ok THEN action
       ELSE LET state == action.M.active_workflows[instance_id]
                step ==
                   CASE action.res.tag = "ExternalServerActionStarted" ->
                           Return(action.M,
                                  service_get_workflow_resource(action.M, instance_id),
                                  << >>)
                     [] action.res.tag = "StartNewWorkflow" ->
                           service_start_workflow(action.M, action.res.val,
                                                  state.user_id, EmptyMap)
                     [] action.res.tag = "ServerActionStarted" ->
                           execute_server_action(action.M, instance_id,
                                                 state.workflow_id,
                                                 action.res.val, outcome)
                     [] OTHER -> Return(action.M, Ok("Unit", None), << >>)
            IN IF ~step.res.ok THEN step
               ELSE Return(step.M,
                           service_get_workflow_resource(step.M, instance_id),
                           step.events)

----------------------------------------------------------------------------
(* Resume *)

Panic == [ok |-> FALSE, tag |-> "panic", val |-> None]

\* the block that wakes one waiter: the stored state is changed in place
\* through get_mut, so what was written before an expect() fails stays
resume_waiter(M, waiting_instance_id, input_key, resource) ==
    IF waiting_instance_id \notin DOMAIN M.active_workflows
    THEN [M |-> M, panic |-> TRUE, events |-> << >>]
    ELSE LET state == M.active_workflows[waiting_instance_id]
             woken == [state EXCEPT
                         !.waiting = FALSE,
                         !.responses =
                             IF input_key # None
                             THEN Insert(@, input_key, ToValue(resource.responses))
                             ELSE @]
             M1 == [M EXCEPT !.active_workflows[waiting_instance_id] = woken]
         IN IF woken.workflow_id \notin DOMAIN M.workflows
            THEN [M |-> M1, panic |-> TRUE, events |-> << >>]
            ELSE LET workflow_definition == M.workflows[woken.workflow_id]
                 IN IF woken.current_node_id \notin DOMAIN workflow_definition.nodes
                    THEN [M |-> M1, panic |-> TRUE, events |-> << >>]
                    ELSE LET valid_child ==
                                 find_valid_child_node(workflow_definition,
                                     workflow_definition.nodes[woken.current_node_id],
                                     woken)
                         IN IF valid_child = None
                            THEN [M |-> M1, panic |-> TRUE, events |-> << >>]
                            ELSE [M |-> [M EXCEPT
                                     !.active_workflows[waiting_instance_id] =
                                         [woken EXCEPT
                                            !.node_history =
                                                Append(@, woken.current_node_id),
                                            !.current_node_id = valid_child]],
                                  panic |-> FALSE,
                                  events |-> << WorkflowUpdated(waiting_instance_id) >>]

\* the waiters whose predicate holds of the completed resource
PredicateMatches(M, resource) ==
    {w \in DOMAIN M.waiting_for_predicate :
        M.waiting_for_predicate[w][1].user_id = resource.user_id}

\* the values find() can yield on the cloned waiting_for_predicate map:
\* any matching entry, iteration order being arbitrary; 0 when none matches
PredicatePicks(M, instance_id) ==
    LET resource == get_workflow_resource(M, instance_id)
    IN IF resource.some /\ PredicateMatches(M, resource) # {}
       THEN PredicateMatches(M, resource)
       ELSE {0}

check_for_waiting(M, instance_id, pick) ==
    LET resource == get_workflow_resource(M, instance_id)
    IN IF ~resource.some THEN Return(M, Panic, << >>)
       ELSE IF ~resource.completed THEN Return(M, Ok("Unit", None), << >>)
       ELSE
         LET has_response == instance_id \in DOMAIN M.waiting_for_response
             M1 == [M EXCEPT !.waiting_for_response = Remove(@, instance_id)]
             first == IF has_response
                      THEN resume_waiter(M1,
                               M.waiting_for_response[instance_id][1],
                               M.waiting_for_response[instance_id][2],
                               get_workflow_resource(M1, instance_id))
                      ELSE [M |-> M1, panic |-> FALSE, events |-> << >>]
         IN IF first.panic THEN Return(first.M, Panic, first.events)
            ELSE IF pick = 0 THEN Return(first.M, Ok("Unit", None), first.events)
            ELSE LET second == resume_waiter(first.M, pick,
                                   first.M.waiting_for_predicate[pick][2],
                                   resource)
                 IN Return(second.M,
                           IF second.panic THEN Panic ELSE Ok("Unit", None),
                           first.events \o second.events)

----------------------------------------------------------------------------
(* Role cards *)

RoleCard(name, priority, register, night_ability) ==
    [name |-> name, priority |-> priority, register |-> register,
     night_ability |-> night_ability]

\* register and night_ability say whether the card has the hook and the
\* ability
seer_card == RoleCard("Seer", 50, TRUE, TRUE)
werewolf_card == RoleCard("Werewolf", 20, TRUE, TRUE)
villager_card == RoleCard("Villager", 0, FALSE, FALSE)
doppelganger_card == RoleCard("Doppelganger", 5, FALSE, TRUE)

RoleCards == {seer_card, werewolf_card, villager_card, doppelganger_card}

\* the workflow a role's hook registers: one node that runs the role's
\* server action, and one child
AbilityDefinition(id, action_id) ==
    [id |-> id, initial_node_id |-> "select_card_node",
     nodes |-> [select_card_node |->
                    Node("select_card_node", None, NoCondition,
                         << Action("reveal", "RunServerAction", action_id),
                            Action("submit", "Submit", None) >>),
                revealed |-> Node("revealed", "select_card_node", Always, << >>)],
     node_order |-> <<"select_card_node", "revealed">>,
     responses |-> EmptyMap,
     server_actions |-> [a \in {action_id} |-> [id |-> action_id]]]

SeerDefinition == AbilityDefinition("seer_ability_workflow", "reveal_player")
WerewolfDefinition == AbilityDefinition("werewolf_ability_workflow", "reveal_cards")

\* the register hook of a card: a server action, then a definition owned
\* by "bot"
register(M, card) ==
    LET action_id == IF card.name = "Seer" THEN "reveal_player" ELSE "reveal_cards"
        definition == IF card.name = "Seer" THEN SeerDefinition
                      ELSE WerewolfDefinition
    IN register_workflow_definition(register_server_action(M, action_id).M,
                                    "bot", definition, definition.node_order).M

Werewolves(g) == {p \in DOMAIN g.players : g.players[p].name = "Werewolf"}

\* the night_ability closure of the player's card: the workflow to start
night_ability(g, player_id) ==
    LET name == g.players[player_id].name
    IN CASE name = "Seer" ->
               Some(final_workflow_id("bot", SeerDefinition.id))
         [] name = "Werewolf" /\ Cardinality(Werewolves(g)) = 1 ->
               Some(final_workflow_id("bot", WerewolfDefinition.id))
         [] OTHER -> [some |-> FALSE, v |-> None]

\* the RoleAbilitySpec of a player: its priority is the card's, and the
\* werewolf's has a validator
get_night_ability(player) ==
    IF player.night_ability
    THEN Some([description |-> player.name, priority |-> player.priority,
               validator |-> player.name = "Werewolf"])
    ELSE [some |-> FALSE, v |-> None]

----------------------------------------------------------------------------
(* GameRunner *)

TurnStarted(player_id) == [tag |-> "TurnStarted", player_id |-> player_id]
TurnExpired(player_id) == [tag |-> "TurnExpired", player_id |-> player_id]

RECURSIVE filter_map(_, _)
\* g.players.iter().filter_map(..).collect(), from the i-th entry on
filter_map(g, i) ==
    IF i > Len(g.players_iter) THEN << >>
    ELSE LET id == g.players_iter[i]
             ability == get_night_ability(g.players[id])
         IN (IF ability.some
             THEN << [player_id |-> id, ability |-> ability.v] >>
             ELSE << >>) \o filter_map(g, i + 1)

RECURSIVE sort_by_key(_, _, _)
\* the stable sort by priority: the entries of all from the i-th on are
\* inserted into sorted, each behind the entries that do not come after it
sort_by_key(all, i, sorted) ==
    IF i > Len(all) THEN sorted
    ELSE LET k == Cardinality({j \in DOMAIN sorted :
                      sorted[j].ability.priority <= all[i].ability.priority})
         IN sort_by_key(all, i + 1,
                        SubSeq(sorted, 1, k) \o << all[i] >>
                            \o SubSeq(sorted, k + 1, Len(sorted)))

\* GameRunner::new without the sort
GameRunner_new_unsorted(g) == filter_map(g, 1)

\* the stages GameRunner::new builds
GameRunner_new(g) == sort_by_key(filter_map(g, 1), 1, << >>)

\* the cards register_cards walks: the players, extended by the middles
all_cards(g) == Extend(g.players, g.middles)

RECURSIVE register_cards(_, _, _, _)
\* the loop of register_cards over all_cards.values() in the order
\* cards_iter, from the i-th card on: the manager after the hooks, and how
\* often the hook of each role was invoked
register_cards(M, cards, cards_iter, i) ==
    IF i > Len(cards_iter) THEN [M |-> M, calls |-> [c \in RoleCards |-> 0]]
    ELSE LET card == cards[cards_iter[i]]
         IN IF card.register
            THEN LET rest == register_cards(register(M, card), cards,
                                            cards_iter, i + 1)
                 IN [rest EXCEPT !.calls[card] = @ + 1]
            ELSE register_cards(M, cards, cards_iter, i + 1)

\* no ability of the model has a condition; the validator of the werewolf
\* holds when there is one werewolf among the players
should_execute(g, ability) ==
    IF ability.validator THEN Cardinality(Werewolves(g)) = 1 ELSE TRUE

----------------------------------------------------------------------------
(* The state machine *)

RECURSIVE JDepth(_)
JDepth(j) ==
    IF j.t = "obj"
    THEN LET depths == {JDepth(j.v[k]) : k \in DOMAIN j.v}
         IN 1 + (IF depths = {} THEN 0
                 ELSE CHOOSE d \in depths : \A e \in depths : e <= d)
    ELSE 0

WithinBounds(M) ==
    /\ Cardinality(DOMAIN M.active_workflows) <= MaxInstances
    /\ \A i \in DOMAIN M.active_workflows :
          /\ Len(M.active_workflows[i].node_history) <= MaxHistory
          /\ JDepth(JObj(M.active_workflows[i].responses)) <= MaxDepth + 1

\* what is kept of a call: whether it was a process_action that returned
\* WorkflowAlreadyCompleted, a process_action with inputs that returned Ok,
\* or an execute_server_action that returned ServerActionFailed
Call(op, inputs, r) ==
    CASE op = "process_action" /\ ~r.res.ok
                               /\ r.res.tag = "WorkflowAlreadyCompleted" ->
            [op |-> op, tag |-> r.res.tag]
      [] op = "process_action" /\ r.res.ok /\ inputs # EmptyMap ->
            [op |-> op, tag |-> "Ok"]
      [] op = "execute_server_action" /\ ~r.res.ok
                                      /\ r.res.tag = "ServerActionFailed" ->
            [op |-> op, tag |-> r.res.tag]
      [] OTHER -> [op |-> "any", tag |-> "other"]

\* a call that left r behind, kept as l in last; within is the bound on
\* what it left
CommitWithin(l, r, within) ==
    /\ calls < MaxCalls
    /\ calls' = calls + 1
    /\ within
    /\ workflows' = r.M.workflows
    /\ active_workflows' = r.M.active_workflows
    /\ server_action_handlers' = r.M.server_action_handlers
    /\ external_server_actions' = r.M.external_server_actions
    /\ waiting_for_response' = r.M.waiting_for_response
    /\ waiting_for_predicate' = r.M.waiting_for_predicate
    /\ next_ulid' = r.M.next_ulid
    /\ last' = l
    /\ UNCHANGED runner_vars
    /\ UNCHANGED task_vars

CommitAs(l, r) == CommitWithin(l, r, WithinBounds(r.M))

Commit(op, inputs, r) == CommitAs(Call(op, inputs, r), r)

Instances == DOMAIN active_workflows

WorkflowIds ==
    {final_workflow_id(u, id) : u \in Owners,
                                id \in {"parent", "nested", "broken", "missing"}}

ShowNodeTargets == {"start", "got", "nowhere"}

ActionIds == {"run", "next", "again", "submit", "back", "cancel", "nope"}

\* what the handlers of the model return: each variant of
\* ServerActionResult, and an error
HandlerOutcomes ==
    {NextPage("start"), NextPage("nowhere"),
     UpdateResponses([x |-> JStr("a")]),
     CompleteWorkflow(EmptyMap, "done"),
     CancelWorkflow,
     StartNewWorkflow(final_workflow_id("bot", "nested"), EmptyMap),
     StartAndWaitWorkflow(final_workflow_id("bot", "nested"), EmptyMap, "k"),
     StartAndWaitWorkflow(final_workflow_id("bot", "nested"), EmptyMap, None),
     StartAndWaitWorkflow(final_workflow_id("bot", "missing"), EmptyMap, None),
     WaitForPredicate(ByUserId("seer"), "k"),
     HandlerError}

\* the mutexes of the WorkflowManager
Mutexes == {"workflows", "active_workflows", "server_action_handlers",
            "external_server_actions", "waiting_for_response",
            "waiting_for_predicate", "event_manager"}

\* no call is in flight: nothing was emitted, no response is awaited and
\* every mutex is free
NoTasks ==
    /\ bus = << >>
    /\ tasks = EmptyMap
    /\ external_action_responses = {}
    /\ locks = [m \in Mutexes |-> None]

\* WorkflowManager::new
NewManager ==
    /\ workflows = EmptyMap
    /\ active_workflows = EmptyMap
    /\ server_action_handlers = {}
    /\ external_server_actions = {}
    /\ waiting_for_response = EmptyMap
    /\ waiting_for_predicate = EmptyMap
    /\ next_ulid = 1
    /\ last = Call("new", EmptyMap, Return(Mgr, Ok("Unit", None), << >>))
    /\ calls = 0
    /\ suspended_at = EmptyMap
    /\ NoTasks

\* GameRunner::new for the game g; run has not been polled yet
NewRunner(g) ==
    /\ game = g
    /\ stages = GameRunner_new(g)
    /\ game_events = << >>
    /\ run = [pc |-> "register_cards", turn |-> << >>]
    /\ register_calls = [c \in RoleCards |-> 0]
    /\ subscribers = [submitted |-> {}, processed |-> {}]
    /\ runner_lock = None
    /\ game_lock = None

NoGame == [players |-> EmptyMap, middles |-> EmptyMap, players_iter |-> << >>]

\* the engine alone, driven by its callers
Init == NewManager /\ NewRunner(NoGame)

RegisterServerAction ==
    /\ \E a \in HandlerIds :
          Commit("register_server_action", EmptyMap, register_server_action(Mgr, a))
    /\ UNCHANGED suspended_at

RegisterWorkflowDefinition ==
    /\ \E u \in Owners, d \in CreateDefinitions :
          \E nodes_iter \in IterationOrders(d) :
             Commit("register_workflow_definition", EmptyMap,
                    register_workflow_definition(Mgr, u, d, nodes_iter))
    /\ UNCHANGED suspended_at

StartWorkflow ==
    /\ \E w \in WorkflowIds, u \in Users :
          Commit("start_workflow", EmptyMap, start_workflow(Mgr, w, u, EmptyMap))
    /\ UNCHANGED suspended_at

ProcessAction ==
    /\ \E i \in Instances \cup {next_ulid}, a \in ActionIds, inputs \in InputMaps :
          Commit("process_action", inputs, process_action(Mgr, i, a, inputs))
    /\ UNCHANGED suspended_at

\* whether the execute_server_action call that led from M0 to r recorded a
\* suspension of its instance
Suspends(M0, r, outcome) ==
    \/ /\ outcome.tag = "StartAndWaitWorkflow"
       /\ DOMAIN r.M.waiting_for_response # DOMAIN M0.waiting_for_response
    \/ /\ outcome.tag = "WaitForPredicate"
       /\ (r.res.ok \/ r.M # M0)

\* the caller passes the workflow_id that process_action returned in
\* ServerActionStarted, which is the instance's own
ExecuteServerAction ==
    \E i \in Instances, a \in HandlerIds, outcome \in HandlerOutcomes :
       LET r == execute_server_action(Mgr, i, active_workflows[i].workflow_id,
                                      a, outcome)
       IN /\ Commit("execute_server_action", EmptyMap, r)
          /\ suspended_at' =
                IF Suspends(Mgr, r, outcome)
                THEN Insert(suspended_at, i, active_workflows[i].current_node_id)
                ELSE suspended_at

ShowNode ==
    /\ \E i \in Instances \cup {next_ulid}, n \in ShowNodeTargets :
          Commit("show_node", EmptyMap, show_node(Mgr, i, n))
    /\ UNCHANGED suspended_at

\* a request to WorkflowService::process_action
\* The requests whose action starts a server action.  A request whose
\* action does not adds to the manager's process_action, which
\* ProcessAction calls, only a read of the resource.
ServiceProcessAction ==
    \E i \in Instances, a \in ActionIds, inputs \in InputMaps :
       LET action == process_action(Mgr, i, a, inputs)
           state == action.M.active_workflows[i]
       IN /\ action.res.ok
          /\ action.res.tag = "ServerActionStarted"
          /\ \E outcome \in HandlerOutcomes :
                LET step == execute_server_action(action.M, i, state.workflow_id,
                                                  action.res.val, outcome)
                IN /\ Commit("service_process_action", inputs,
                             service_process_action(Mgr, i, a, inputs, outcome))
                   /\ suspended_at' =
                         IF Suspends(action.M, step, outcome)
                         THEN Insert(suspended_at, i, state.current_node_id)
                         ELSE suspended_at

CheckForWaiting ==
    /\ \E i \in Instances :
          \E pick \in PredicatePicks(Mgr, i) :
             Commit("check_for_waiting", EmptyMap, check_for_waiting(Mgr, i, pick))
    /\ UNCHANGED suspended_at

Next ==
    \/ RegisterServerAction
    \/ RegisterWorkflowDefinition
    \/ StartWorkflow
    \/ ProcessAction
    \/ ExecuteServerAction
    \/ ShowNode
    \/ ServiceProcessAction
    \/ CheckForWaiting

Spec == Init /\ [][Next]_vars

----------------------------------------------------------------------------
(* The night: GameRunner::run and the event subscribers *)

PlayerIds == {"p1", "p2", "p3"}
MiddleIds == {"m1"}

\* the games of the model: every deal of the cards to the players, a
\* villager or a seer in the middle, and every iteration order of the
\* players map
Games ==
    {[players |-> players, middles |-> middles, players_iter |-> players_iter] :
        players \in [PlayerIds -> RoleCards],
        middles \in [MiddleIds -> {villager_card, seer_card}],
        players_iter \in Permutation(PlayerIds)}

RunnerInit == NewManager /\ \E g \in Games : NewRunner(g)

\* the manager after a call made through the game; last, calls and
\* suspended_at belong to the engine's own callers
Apply(M) ==
    /\ workflows' = M.workflows
    /\ active_workflows' = M.active_workflows
    /\ server_action_handlers' = M.server_action_handlers
    /\ external_server_actions' = M.external_server_actions
    /\ waiting_for_response' = M.waiting_for_response
    /\ waiting_for_predicate' = M.waiting_for_predicate
    /\ next_ulid' = M.next_ulid
    /\ UNCHANGED <<last, calls, suspended_at>>

\* run's first block: register_cards, under the runner's lock
RegisterCards ==
    /\ run.pc = "register_cards"
    /\ runner_lock = None
    /\ \E cards_iter \in Permutation(DOMAIN all_cards(game)) :
          LET r == register_cards(Mgr, all_cards(game), cards_iter, 1)
          IN /\ Apply(r.M)
             /\ register_calls' = r.calls
    /\ run' = [run EXCEPT !.pc = "pop_front"]
    /\ UNCHANGED <<game, stages, game_events, subscribers, runner_lock, game_lock>>
    /\ UNCHANGED task_vars

\* STEP 1: pop the next stage, or return
PopStage ==
    /\ run.pc = "pop_front"
    /\ runner_lock = None
    /\ IF stages = << >>
       THEN /\ run' = [pc |-> "returned", turn |-> << >>]
            /\ UNCHANGED stages
       ELSE /\ run' = [pc |-> "turn_started", turn |-> << Head(stages) >>]
            /\ stages' = Tail(stages)
    /\ UNCHANGED <<workflows, active_workflows, server_action_handlers,
                   external_server_actions, waiting_for_response,
                   waiting_for_predicate, next_ulid, last, calls, suspended_at,
                   game, game_events, register_calls, subscribers, runner_lock,
                   game_lock>>
    /\ UNCHANGED task_vars

\* STEP 2: emit TurnStarted
EmitTurnStarted ==
    /\ run.pc = "turn_started"
    /\ runner_lock = None
    /\ game_events' = Append(game_events, TurnStarted(run.turn[1].player_id))
    /\ run' = [run EXCEPT !.pc = "should_execute"]
    /\ UNCHANGED <<workflows, active_workflows, server_action_handlers,
                   external_server_actions, waiting_for_response,
                   waiting_for_predicate, next_ulid, last, calls, suspended_at,
                   game, stages, register_calls, subscribers, runner_lock,
                   game_lock>>
    /\ UNCHANGED task_vars

\* STEP 3: should_execute, under both locks; the loop continues without
\* TurnExpired when it is false
ShouldExecute ==
    /\ run.pc = "should_execute"
    /\ runner_lock = None
    /\ game_lock = None
    /\ run' = IF should_execute(game, run.turn[1].ability)
              THEN [run EXCEPT !.pc = "sleep"]
              ELSE [pc |-> "pop_front", turn |-> << >>]
    /\ UNCHANGED <<workflows, active_workflows, server_action_handlers,
                   external_server_actions, waiting_for_response,
                   waiting_for_predicate, next_ulid, last, calls, suspended_at,
                   game, stages, game_events, register_calls, subscribers,
                   runner_lock, game_lock>>
    /\ UNCHANGED task_vars

\* STEP 4: the turn's duration passes; no lock is held
Sleep ==
    /\ run.pc = "sleep"
    /\ run' = [run EXCEPT !.pc = "turn_expired"]
    /\ UNCHANGED <<workflows, active_workflows, server_action_handlers,
                   external_server_actions, waiting_for_response,
                   waiting_for_predicate, next_ulid, last, calls, suspended_at,
                   game, stages, game_events, register_calls, subscribers,
                   runner_lock, game_lock>>
    /\ UNCHANGED task_vars

\* STEP 5: emit TurnExpired
EmitTurnExpired ==
    /\ run.pc = "turn_expired"
    /\ runner_lock = None
    /\ game_events' = Append(game_events, TurnExpired(run.turn[1].player_id))
    /\ run' = [pc |-> "pop_front", turn |-> << >>]
    /\ UNCHANGED <<workflows, active_workflows, server_action_handlers,
                   external_server_actions, waiting_for_response,
                   waiting_for_predicate, next_ulid, last, calls, suspended_at,
                   game, stages, register_calls, subscribers, runner_lock,
                   game_lock>>
    /\ UNCHANGED task_vars

\* a step of the task that runs GameRunner::run
Run ==
    \/ RegisterCards
    \/ PopStage
    \/ EmitTurnStarted
    \/ ShouldExecute
    \/ Sleep
    \/ EmitTurnExpired

\* a subscriber that has received TurnStarted{p} calls
\* runner.lock().await.submit_action(p, ability, targets): the entry it
\* puts into pending_actions is taken out again by play_ability, which
\* invokes the ability and starts the workflow it names; the task panics at
\* the expect when start_workflow returns an error.  AbilityExecuted and
\* UpdateWorkflow, which the subscribers' calls send, are not kept in
\* game_events.
SubmitAction ==
    \E p \in DOMAIN game.players :
       /\ \E k \in DOMAIN game_events : game_events[k] = TurnStarted(p)
       /\ p \notin subscribers.submitted
       /\ runner_lock = None
       /\ subscribers' = [subscribers EXCEPT !.submitted = @ \cup {p}]
       /\ LET definition == night_ability(game, p)
          IN IF definition.some
             THEN /\ game_lock = None
                  /\ LET started == start_workflow(Mgr, definition.v, p, EmptyMap)
                     IN Apply(started.M)
             ELSE /\ UNCHANGED <<workflows, active_workflows,
                                 server_action_handlers, external_server_actions,
                                 waiting_for_response, waiting_for_predicate,
                                 next_ulid, last, calls, suspended_at>>
       /\ UNCHANGED <<game, stages, game_events, run, register_calls,
                      runner_lock, game_lock>>
       /\ UNCHANGED task_vars

\* the actions a subscriber asks for
RunnerActionIds == {"reveal", "submit"}

\* a subscriber calls runner.lock().await.process_workflow_action(p, args)
\* for an instance of p.  The game's lock is held across the engine's
\* process_action; the handlers the hooks register lock the game
\* themselves, so a request that runs one waits for the lock its own task
\* holds, and the task keeps the runner's lock too.
ProcessWorkflowAction ==
    \E i \in Instances, a \in RunnerActionIds :
       LET p == active_workflows[i].user_id
           action == process_action(Mgr, i, a, EmptyMap)
       IN /\ p \in DOMAIN game.players
          /\ i \notin subscribers.processed
          /\ runner_lock = None
          /\ game_lock = None
          /\ subscribers' = [subscribers EXCEPT !.processed = @ \cup {i}]
          /\ IF action.res.ok /\ action.res.tag = "ServerActionStarted"
             THEN /\ Apply(action.M)
                  /\ runner_lock' = p
                  /\ game_lock' = p
             ELSE LET r == service_process_action(Mgr, i, a, EmptyMap, HandlerError)
                  IN /\ Apply(r.M)
                     /\ UNCHANGED <<runner_lock, game_lock>>
          /\ UNCHANGED <<game, stages, game_events, run, register_calls>>
          /\ UNCHANGED task_vars

RunnerNext ==
    \/ RegisterCards
    \/ PopStage
    \/ EmitTurnStarted
    \/ ShouldExecute
    \/ Sleep
    \/ EmitTurnExpired
    \/ SubmitAction
    \/ ProcessWorkflowAction

RunnerSpec == RunnerInit /\ [][RunnerNext]_vars

\* the runtime polls the task of run whenever it can take a step
RunnerFairSpec == RunnerSpec /\ WF_vars(Run)

----------------------------------------------------------------------------
(* The registry: handlers, external server actions and the definitions  *)
(* that reference them                                                   *)

RegistryUsers == {"bot", "eve"}
ExternalIds == {"a"}

\* a definition whose node offers a server action in each way an action can
\* name one: through a target that server_actions maps, through a target it
\* does not map, and without a target under an id that is, or is not, a key
\* of server_actions; server_actions declares the one id ref
ActionDefinition(ref) ==
    [id |-> "act", initial_node_id |-> "start",
     nodes |-> [start |->
                   Node("start", None, NoCondition,
                        << Action("mapped", "RunServerAction", "key"),
                           Action("unmapped", "RunServerAction", "sa"),
                           Action("key", "RunServerAction", None),
                           Action("bare", "RunServerAction", None) >>)],
     node_order |-> <<"start">>,
     responses |-> EmptyMap,
     server_actions |-> [key |-> [id |-> ref]]]

\* the ids a definition of the model declares: a handler's, the raw id of
\* an external action, and the ids register_external_server_action returns
DeclaredIds ==
    HandlerIds \cup ExternalIds
        \cup {final_action_id(u, a) : u \in RegistryUsers, a \in ExternalIds}

ActionDefinitions == {ActionDefinition(ref) : ref \in DeclaredIds}

RunActionIds == {"mapped", "unmapped", "key", "bare"}

\* what is kept of a call of the registry's callers: the operation and the
\* value it returned
Outcome(op, r) == [op |-> op, tag |-> r.res.tag, val |-> r.res.val]

RegisterExternalServerAction ==
    /\ \E u \in RegistryUsers, a \in ExternalIds :
          LET r == register_external_server_action(Mgr, u, a)
          IN CommitAs(Outcome("register_external_server_action", r), r)
    /\ UNCHANGED suspended_at

RegisterActionDefinition ==
    /\ \E u \in RegistryUsers, d \in ActionDefinitions :
          LET r == register_workflow_definition(Mgr, u, d, d.node_order)
          IN CommitAs(Outcome("register_workflow_definition", r), r)
    /\ UNCHANGED suspended_at

StartActionWorkflow ==
    /\ \E owner \in RegistryUsers, u \in Users :
          LET r == start_workflow(Mgr, final_workflow_id(owner, "act"), u, EmptyMap)
          IN CommitAs(Outcome("start_workflow", r), r)
    /\ UNCHANGED suspended_at

RunAction ==
    /\ \E i \in Instances, a \in RunActionIds :
          LET r == process_action(Mgr, i, a, EmptyMap)
          IN CommitAs(Outcome("process_action", r), r)
    /\ UNCHANGED suspended_at

RegistryNext ==
    \/ RegisterServerAction
    \/ RegisterExternalServerAction
    \/ RegisterActionDefinition
    \/ StartActionWorkflow
    \/ RunAction

RegistrySpec == Init /\ [][RegistryNext]_vars

----------------------------------------------------------------------------
(* The history: an instance walked forth and back through its nodes *)

HistoryNodes == {"a", "b", "c"}

ToNode(n) == "to_" \o n

\* every node offers PreviousNode and a NextNode to each node by name
HistoryDefinition ==
    [id |-> "history", initial_node_id |-> "a",
     nodes |-> [n \in HistoryNodes |->
                   Node(n, None, NoCondition,
                        << Action("back", "PreviousNode", None),
                           Action(ToNode("a"), "NextNode", "a"),
                           Action(ToNode("b"), "NextNode", "b"),
                           Action(ToNode("c"), "NextNode", "c") >>)],
     node_order |-> <<"a", "b", "c">>,
     responses |-> EmptyMap,
     server_actions |-> EmptyMap]

HistoryActionIds == {"back"} \cup {ToNode(n) : n \in HistoryNodes}

\* the definition is registered and one instance of it is started
HistoryInit ==
    LET registered == register_workflow_definition(
                          [workflows |-> EmptyMap,
                           active_workflows |-> EmptyMap,
                           server_action_handlers |-> {},
                           external_server_actions |-> {},
                           waiting_for_response |-> EmptyMap,
                           waiting_for_predicate |-> EmptyMap,
                           next_ulid |-> 1],
                          "bot", HistoryDefinition, HistoryDefinition.node_order)
        started == start_workflow(registered.M, registered.res.val, "seer", EmptyMap)
    IN /\ workflows = started.M.workflows
       /\ active_workflows = started.M.active_workflows
       /\ server_action_handlers = {}
       /\ external_server_actions = {}
       /\ waiting_for_response = EmptyMap
       /\ waiting_for_predicate = EmptyMap
       /\ next_ulid = started.M.next_ulid
       /\ last = [op |-> "start_workflow", trail |-> << >>]
       /\ calls = 0
       /\ suspended_at = EmptyMap
       /\ NoTasks
       /\ NewRunner(NoGame)

\* the trail with one more call, cut to the last 2 * MaxTrip calls
Trail(trail, call) ==
    LET all == Append(trail, call)
    IN IF Len(all) > 2 * MaxTrip
       THEN SubSeq(all, Len(all) - 2 * MaxTrip + 1, Len(all))
       ELSE all

\* a process_action call of the instance's user; last keeps, of the latest
\* calls, the action, the node the instance was on, and whether it was Ok
WalkHistory ==
    /\ \E i \in Instances, a \in HistoryActionIds, inputs \in InputMaps :
          LET r == process_action(Mgr, i, a, inputs)
          IN CommitWithin(
                 [op |-> "process_action",
                  trail |-> Trail(last.trail,
                                  [action |-> a,
                                   from |-> active_workflows[i].current_node_id,
                                   ok |-> r.res.ok])],
                 r,
                 \A j \in DOMAIN r.M.active_workflows :
                    Len(r.M.active_workflows[j].node_history) <= MaxTrip)
    /\ UNCHANGED suspended_at

HistoryNext == WalkHistory

HistorySpec == HistoryInit /\ [][HistoryNext]_vars

----------------------------------------------------------------------------
(* Conditions: an instance on a node whose child has a condition *)

\* the values that are no objects
Scalars == << JStr("x"), JStr("y"), JArr(<< >>), JArr(<< JStr("x") >>) >>

RECURSIVE JValues(_)
\* the JSON values whose objects nest up to d deep, under the key "b",
\* one after the other
JValues(d) ==
    IF d = 0 THEN Scalars
    ELSE LET inner == JValues(d - 1)
         IN Scalars \o << JObj(EmptyMap) >>
                \o [k \in 1..Len(inner) |-> JObj([b |-> inner[k]])]

\* the response map with the value of index ka under "a" and of index kb
\* under "b"; the index 0 is for no value
ResponseMap(values, ka, kb) ==
    [key \in {k \in {"a", "b"} : IF k = "a" THEN ka > 0 ELSE kb > 0} |->
        IF key = "a" THEN values[ka] ELSE values[kb]]

ConditionPaths ==
    {<<"a">>, <<"b">>, <<"c">>, <<"a", "b">>, <<"b", "b">>, <<"a", "c">>,
     <<"a", "b", "b">>, <<"a", "b", "c">>}

ConditionValues == << JStr("x"), JArr(<< >>), JObj([b |-> JStr("x")]) >>

ConditionTags == {"None", "Always", "ResponseExists", "ResponseListNotEmpty",
                  "ResponseEquals"}

\* the condition of a tag, a path and a value to be equal to
NodeCondition(tag, f, val) ==
    CASE tag = "None" -> NoCondition
      [] tag = "Always" -> Always
      [] tag = "ResponseExists" -> ResponseExists(f)
      [] tag = "ResponseListNotEmpty" -> ResponseListNotEmpty(f)
      [] tag = "ResponseEquals" -> ResponseEquals(f, val)

\* the node "start" and its one child, which has the condition
ConditionDefinition(condition) ==
    [id |-> "cond", initial_node_id |-> "start",
     nodes |-> [start |-> Node("start", None, NoCondition,
                              << Action("next", "NextNode", None) >>),
                child |-> Node("child", "start", condition, << >>)],
     node_order |-> <<"start", "child">>,
     responses |-> EmptyMap,
     server_actions |-> EmptyMap]

\* a definition is registered and an instance of it started with inputs
ConditionInit ==
    \E tag \in ConditionTags, f \in ConditionPaths,
       v \in 1..Len(ConditionValues),
       ka \in 0..Len(JValues(MaxDepth + 1)), kb \in 0..Len(JValues(MaxDepth + 1)) :
       LET condition == NodeCondition(tag, f, ConditionValues[v])
           inputs == ResponseMap(JValues(MaxDepth + 1), ka, kb)
           d == ConditionDefinition(condition)
           registered == register_workflow_definition(
                             [workflows |-> EmptyMap,
                              active_workflows |-> EmptyMap,
                              server_action_handlers |-> {},
                              external_server_actions |-> {},
                              waiting_for_response |-> EmptyMap,
                              waiting_for_predicate |-> EmptyMap,
                              next_ulid |-> 1],
                             "bot", d, d.node_order)
           started == start_workflow(registered.M, registered.res.val, "seer",
                                     inputs)
       IN /\ workflows = started.M.workflows
          /\ active_workflows = started.M.active_workflows
          /\ server_action_handlers = {}
          /\ external_server_actions = {}
          /\ waiting_for_response = EmptyMap
          /\ waiting_for_predicate = EmptyMap
          /\ next_ulid = started.M.next_ulid
          /\ last = [op |-> "start_workflow", result |-> None]
          /\ calls = 0
          /\ suspended_at = EmptyMap
          /\ NoTasks
          /\ NewRunner(NoGame)

\* a call, not counted, that left the manager M and is kept as l
Keep(l, M) ==
    /\ workflows' = M.workflows
    /\ active_workflows' = M.active_workflows
    /\ server_action_handlers' = M.server_action_handlers
    /\ external_server_actions' = M.external_server_actions
    /\ waiting_for_response' = M.waiting_for_response
    /\ waiting_for_predicate' = M.waiting_for_predicate
    /\ next_ulid' = M.next_ulid
    /\ last' = l
    /\ UNCHANGED <<calls, suspended_at>>
    /\ UNCHANGED runner_vars
    /\ UNCHANGED task_vars

\* evaluate_node_condition of a node of the instance's definition
EvaluateNodeCondition ==
    \E i \in Instances :
       \E n \in DOMAIN workflows[active_workflows[i].workflow_id].nodes :
          LET node == workflows[active_workflows[i].workflow_id].nodes[n]
          IN Keep([op |-> "evaluate_node_condition",
                   result |-> IF evaluate_node_condition(node, active_workflows[i])
                              THEN "true" ELSE "false"],
                  Mgr)

\* NextNode without a target: the child is shown when its condition holds
SelectChild ==
    \E i \in Instances :
       LET r == process_action(Mgr, i, "next", EmptyMap)
       IN Keep([op |-> "process_action", result |-> r.res.tag], r.M)

ConditionNext == EvaluateNodeCondition \/ SelectChild

ConditionSpec == ConditionInit /\ [][ConditionNext]_vars

----------------------------------------------------------------------------
(* Tasks: the calls of the engine and the service taken apart at the     *)
(* places where they release the locks of the manager                    *)

\* a workflow whose first node asks an external server action; the answer
\* decides whether the child node may be entered
TaskDefinition ==
    [id |-> "task", initial_node_id |-> "start",
     nodes |-> [start |-> Node("start", None, NoCondition,
                              << Action("ask", "RunServerAction", "ext"),
                                 Action("submit", "Submit", None) >>),
                done |-> Node("done", "start",
                             ResponseEquals(<<"x">>, JStr("a")), << >>)],
     node_order |-> <<"start", "done">>,
     responses |-> EmptyMap,
     server_actions |-> [ext |-> [id |-> final_action_id("bot", "ask")]]]

TaskNodes == {"start", "done"}

\* what the external party answers
ExternalResults ==
    {NextPage("done"), NextPage("nowhere"),
     UpdateResponses([x |-> JStr("a")]), UpdateResponses([x |-> JStr("b")])}

\* a call in flight: the token of its oneshot channel, the value received
\* on it and the state it took out of the store (<< >> when it has none)
Task(call, pc, token, result, state) ==
    [call |-> call, pc |-> pc, token |-> token, result |-> result,
     state |-> state]

\* the external action and the definition are registered
TaskInit ==
    LET external == register_external_server_action(
                        [workflows |-> EmptyMap,
                         active_workflows |-> EmptyMap,
                         server_action_handlers |-> {},
                         external_server_actions |-> {},
                         waiting_for_response |-> EmptyMap,
                         waiting_for_predicate |-> EmptyMap,
                         next_ulid |-> 1],
                        "bot", "ask")
        registered == register_workflow_definition(external.M, "bot",
                          TaskDefinition, TaskDefinition.node_order)
    IN /\ workflows = registered.M.workflows
       /\ active_workflows = EmptyMap
       /\ server_action_handlers = {}
       /\ external_server_actions = registered.M.external_server_actions
       /\ waiting_for_response = EmptyMap
       /\ waiting_for_predicate = EmptyMap
       /\ next_ulid = 1
       /\ last = Outcome("register_workflow_definition", registered)
       /\ calls = 0
       /\ suspended_at = EmptyMap
       /\ NoTasks
       /\ NewRunner(NoGame)

\* a step of a call, kept as l, that leaves the manager M; every mutex the
\* step takes is released when it ends
TaskStep(l, M) ==
    /\ calls < MaxCalls
    /\ calls' = calls + 1
    /\ Cardinality(DOMAIN M.active_workflows) <= MaxInstances
    /\ workflows' = M.workflows
    /\ active_workflows' = M.active_workflows
    /\ server_action_handlers' = M.server_action_handlers
    /\ external_server_actions' = M.external_server_actions
    /\ waiting_for_response' = M.waiting_for_response
    /\ waiting_for_predicate' = M.waiting_for_predicate
    /\ next_ulid' = M.next_ulid
    /\ last' = l
    /\ UNCHANGED suspended_at
    /\ UNCHANGED runner_vars
    /\ UNCHANGED locks

\* the ids start_workflow has given to instances
Created == 1..(next_ulid - 1)

\* start_workflow up to the insert into active_workflows; the lock is
\* released before event_manager is locked
StartWorkflowInsert ==
    \E u \in Users :
       LET r == start_workflow(Mgr, final_workflow_id("bot", "task"), u, EmptyMap)
       IN /\ Cardinality(Instances) < MaxInstances
          /\ TaskStep([op |-> "start_workflow", tag |-> "inserted",
                       val |-> next_ulid], r.M)
          /\ tasks' = Insert(tasks, next_ulid,
                             Task("start_workflow", "emit", 0, None, << >>))
          /\ UNCHANGED <<bus, external_action_responses>>

\* the rest of start_workflow: the resource is read and WorkflowStarted
\* is emitted
StartWorkflowEmit ==
    \E i \in DOMAIN tasks :
       LET resource == get_workflow_resource(Mgr, i)
       IN /\ tasks[i].call = "start_workflow"
          /\ TaskStep([op |-> "start_workflow",
                       tag |-> IF resource.some THEN "Id" ELSE "WorkflowNotFound",
                       val |-> i], Mgr)
          /\ bus' = IF resource.some THEN Append(bus, WorkflowStarted(i)) ELSE bus
          /\ tasks' = Remove(tasks, i)
          /\ UNCHANGED external_action_responses

\* show_node of an instance that is in the store
ShowNodeCall ==
    \E i \in Instances, n \in TaskNodes :
       LET r == show_node(Mgr, i, n)
       IN /\ TaskStep(Outcome("show_node", r), r.M)
          /\ bus' = bus \o r.events
          /\ UNCHANGED <<tasks, external_action_responses>>

\* WorkflowService::process_action of the action that asks the external
\* server action: handle_external_server_action spawns the task, which
\* stores the sender of a oneshot channel under the token and waits for
\* the receiver with a timeout.  The token is fresh: it is the number of
\* this call.
RequestExternalAction ==
    \E i \in Instances :
       LET r == process_action(Mgr, i, "ask", EmptyMap)
       IN /\ i \notin DOMAIN tasks
          /\ r.res.ok
          /\ r.res.tag = "ExternalServerActionStarted"
          /\ TaskStep(Outcome("process_action", r), r.M)
          /\ tasks' = Insert(tasks, i,
                             Task("external", "waiting", calls + 1, None, << >>))
          /\ external_action_responses' =
                 external_action_responses \cup {calls + 1}
          /\ UNCHANGED bus

\* the tasks whose receiver has been dropped although the sender is still
\* stored: a send reaches them all the same
Receivers_undropped(token) ==
    {i \in DOMAIN tasks : tasks[i].call = "external" /\ tasks[i].token = token}

\* the tasks that await the receiver of the channel of a token
Receivers(token) ==
    {i \in DOMAIN tasks : /\ tasks[i].call = "external"
                          /\ tasks[i].token = token
                          /\ tasks[i].pc = "waiting"}

\* tx.send(value) on the channel of a token: the value reaches the task
\* that awaits the receiver; the error of a send to a dropped receiver is
\* thrown away
send(token, value) ==
    [i \in DOMAIN tasks |->
        IF i \in Receivers(token)
        THEN [tasks[i] EXCEPT !.pc = "answered", !.result = value]
        ELSE tasks[i]]

\* respond_server_action: the sender stored under the token is taken out
\* and the result is sent on it; NotFound when no sender is stored
RespondServerAction ==
    \E token \in 1..MaxCalls, result \in ExternalResults :
       /\ TaskStep([op |-> "respond_server_action",
                    tag |-> IF token \in external_action_responses
                            THEN "Ok" ELSE "NotFound",
                    val |-> token], Mgr)
       /\ external_action_responses' = external_action_responses \ {token}
       /\ tasks' = IF token \in external_action_responses
                   THEN send(token, result)
                   ELSE tasks
       /\ UNCHANGED bus

\* the answer has arrived: the task takes the state of the instance out of
\* active_workflows and releases the lock
ExternalRemove ==
    \E i \in DOMAIN tasks :
       /\ tasks[i].call = "external"
       /\ tasks[i].pc = "answered"
       /\ IF i \in Instances
          THEN /\ TaskStep([op |-> "handle_external_server_action",
                            tag |-> "removed", val |-> i],
                           [Mgr EXCEPT !.active_workflows = Remove(@, i)])
               /\ tasks' = [tasks EXCEPT ![i].pc = "removed",
                                         ![i].state = << active_workflows[i] >>]
          ELSE /\ TaskStep([op |-> "handle_external_server_action",
                            tag |-> "absent", val |-> i], Mgr)
               /\ tasks' = [tasks EXCEPT ![i].pc = "update"]
       /\ UNCHANGED <<bus, external_action_responses>>

\* the task applies the result to the state it holds and puts the state
\* back, whatever process_server_action_results returned
ExternalInsert ==
    \E i \in DOMAIN tasks :
       /\ tasks[i].call = "external"
       /\ tasks[i].pc = "removed"
       /\ LET applied == process_server_action_results(Mgr, tasks[i].result,
                              workflows[tasks[i].state[1].workflow_id], i,
                              tasks[i].state[1])
          IN /\ TaskStep([op |-> "handle_external_server_action",
                          tag |-> IF applied.res.ok THEN "success" ELSE "uh oh",
                          val |-> i],
                         [applied.M EXCEPT !.active_workflows =
                             Insert(@, i, applied.state)])
             /\ bus' = bus \o EventsOf(applied)
       /\ tasks' = [tasks EXCEPT ![i].pc = "update"]
       /\ UNCHANGED external_action_responses

\* no answer within ten seconds: the receiver is dropped with the timeout,
\* the sender stays in external_action_responses
ExternalTimeout ==
    \E i \in DOMAIN tasks :
       /\ tasks[i].call = "external"
       /\ tasks[i].pc = "waiting"
       /\ TaskStep([op |-> "handle_external_server_action", tag |-> "timeout",
                    val |-> i], Mgr)
       /\ tasks' = [tasks EXCEPT ![i].pc = "update"]
       /\ UNCHANGED <<bus, external_action_responses>>

\* the end of the task: the resource of the instance is read and published
\* to the kafka sink
ExternalUpdate ==
    \E i \in DOMAIN tasks :
       /\ tasks[i].call = "external"
       /\ tasks[i].pc = "update"
       /\ TaskStep([op |-> "handle_external_server_action",
                    tag |-> IF get_workflow_resource(Mgr, i).some
                            THEN "updated" ELSE "panic",
                    val |-> i], Mgr)
       /\ tasks' = Remove(tasks, i)
       /\ UNCHANGED <<bus, external_action_responses>>

\* WorkflowService::get_workflow_resource of an instance that was created
GetWorkflowResource ==
    \E i \in Created :
       /\ TaskStep([op |-> "get_workflow_resource",
                    tag |-> service_get_workflow_resource(Mgr, i).tag,
                    val |-> i], Mgr)
       /\ UNCHANGED <<bus, tasks, external_action_responses>>

TaskNext ==
    \/ StartWorkflowInsert
    \/ StartWorkflowEmit
    \/ ShowNodeCall
    \/ RequestExternalAction
    \/ RespondServerAction
    \/ ExternalRemove
    \/ ExternalInsert
    \/ ExternalTimeout
    \/ ExternalUpdate
    \/ GetWorkflowResource

TaskSpec == TaskInit /\ [][TaskNext]_vars

----------------------------------------------------------------------------
(* Mutexes: the calls of the engine taken apart at the places where they  *)
(* wait for a mutex of the manager.  A tokio Mutex is not reentrant and   *)
(* lock().await waits until the mutex is free, so a step that takes a     *)
(* mutex is enabled only while nobody holds it.                           *)

Callers == {"c1", "c2"}

\* a workflow with an in-process server action, a step to a second node
\* and a submit
LockDefinition ==
    [id |-> "lock", initial_node_id |-> "start",
     nodes |-> [start |-> Node("start", None, NoCondition,
                              << Action("run", "RunServerAction", "sa"),
                                 Action("next", "NextNode", "other"),
                                 Action("submit", "Submit", None) >>),
                other |-> Node("other", "start", Always,
                              << Action("submit", "Submit", None) >>)],
     node_order |-> <<"start", "other">>,
     responses |-> EmptyMap,
     server_actions |-> [sa |-> [id |-> "sa"]]]

LockActionIds == {"run", "next", "submit"}

\* what the handler of "sa" returns
LockOutcomes ==
    {NextPage("other"),
     StartAndWaitWorkflow(final_workflow_id("bot", "lock"), EmptyMap, None)}

\* the call a caller is in, or the call it has last returned from: the
\* instance and the action it was given, the state it read, the state it
\* is going to write, what the handler returned and the result of the call
Running(call, pc, instance_id, action_id, state, new_state, outcome, result) ==
    [call |-> call, pc |-> pc, instance_id |-> instance_id,
     action_id |-> action_id, state |-> state, new_state |-> new_state,
     outcome |-> outcome, result |-> result]

Idle == Running("none", "returned", 0, None, << >>, << >>, None, Ok("Unit", None))

Returned(t, result) == [t EXCEPT !.pc = "returned", !.result = result]

\* the handler and the definition are registered and one instance is started
LockInit ==
    LET handler == register_server_action(
                       [workflows |-> EmptyMap,
                        active_workflows |-> EmptyMap,
                        server_action_handlers |-> {},
                        external_server_actions |-> {},
                        waiting_for_response |-> EmptyMap,
                        waiting_for_predicate |-> EmptyMap,
                        next_ulid |-> 1],
                       "sa")
        registered == register_workflow_definition(handler.M, "bot",
                          LockDefinition, LockDefinition.node_order)
        started == start_workflow(registered.M, final_workflow_id("bot", "lock"),
                                  "seer", EmptyMap)
    IN /\ workflows = started.M.workflows
       /\ active_workflows = started.M.active_workflows
       /\ server_action_handlers = started.M.server_action_handlers
       /\ external_server_actions = started.M.external_server_actions
       /\ waiting_for_response = EmptyMap
       /\ waiting_for_predicate = EmptyMap
       /\ next_ulid = started.M.next_ulid
       /\ last = Outcome("start_workflow", started)
       /\ calls = 0
       /\ suspended_at = EmptyMap
       /\ bus = started.events
       /\ tasks = [c \in Callers |-> Idle]
       /\ external_action_responses = {}
       /\ locks = [m \in Mutexes |-> None]
       /\ NewRunner(NoGame)

\* the mutexes the next step of a call takes
Needs(t) ==
    CASE t.call = "register_workflow_definition" /\ t.pc = "lock_external" ->
            {"external_server_actions"}
      [] t.call = "register_workflow_definition" /\ t.pc = "check" ->
            {"workflows"}
      [] t.call = "process_action" /\ t.pc = "lock_external" ->
            {"external_server_actions"}
      [] t.call = "process_action" /\ t.pc = "lock_handlers" ->
            {"server_action_handlers"}
      [] t.call = "process_action" /\ t.pc = "write" ->
            {"active_workflows"}
      [] t.call = "execute_server_action" /\ t.pc = "record_waiting" ->
            {"waiting_for_response"}
      [] t.call = "execute_server_action" /\ t.pc = "write_back" ->
            {"active_workflows", "workflows", "event_manager"}
      [] t.call = "list_user_workflow_resources"
            /\ t.pc = "get_workflow_resource" ->
            {"active_workflows"}
      [] OTHER -> {}

Free(mutexes) == \A m \in mutexes : locks[m] = None

\* the mutexes a caller holds
Held(c) == {m \in Mutexes : locks[m] = c}

Acquire(c, mutexes) == [m \in Mutexes |-> IF m \in mutexes THEN c ELSE locks[m]]

Release(c) == [m \in Mutexes |-> IF locks[m] = c THEN None ELSE locks[m]]

\* a step of the call of caller c that leaves the manager M
LockStep(c, t, M) ==
    /\ calls < MaxCalls
    /\ calls' = calls + 1
    /\ Cardinality(DOMAIN M.active_workflows) <= MaxInstances
    /\ workflows' = M.workflows
    /\ active_workflows' = M.active_workflows
    /\ server_action_handlers' = M.server_action_handlers
    /\ external_server_actions' = M.external_server_actions
    /\ waiting_for_response' = M.waiting_for_response
    /\ waiting_for_predicate' = M.waiting_for_predicate
    /\ next_ulid' = M.next_ulid
    /\ tasks' = [tasks EXCEPT ![c] = t]
    /\ last' = [op |-> t.call, tag |-> t.pc, val |-> c]
    /\ UNCHANGED suspended_at
    /\ UNCHANGED runner_vars
    /\ UNCHANGED external_action_responses

\* the step of caller c that its call and pc name, with its mutexes free
At(c, call, pc) ==
    /\ tasks[c].call = call
    /\ tasks[c].pc = pc
    /\ Free(Needs(tasks[c]))

\* register_workflow_definition takes server_action_handlers ...
RegisterDefinitionLockHandlers ==
    \E c \in Callers :
       /\ tasks[c].pc = "returned"
       /\ Free({"server_action_handlers"})
       /\ LockStep(c, Running("register_workflow_definition", "lock_external",
                              0, None, << >>, << >>, None, Ok("Unit", None)), Mgr)
       /\ locks' = Acquire(c, {"server_action_handlers"})
       /\ UNCHANGED bus

\* ... and then external_server_actions, with server_action_handlers held
RegisterDefinitionLockExternal ==
    \E c \in Callers :
       /\ At(c, "register_workflow_definition", "lock_external")
       /\ LockStep(c, [tasks[c] EXCEPT !.pc = "check"], Mgr)
       /\ locks' = Acquire(c, {"external_server_actions"})
       /\ UNCHANGED bus

\* the server actions are checked, both mutexes are released and the
\* definition is stored under the mutex of workflows
RegisterDefinitionCheck ==
    \E c \in Callers :
       LET r == register_workflow_definition(Mgr, "bot", LockDefinition,
                                             LockDefinition.node_order)
       IN /\ At(c, "register_workflow_definition", "check")
          /\ LockStep(c, Returned(tasks[c], r.res), r.M)
          /\ locks' = Release(c)
          /\ UNCHANGED bus

\* the manager in which the instance is in the state the call has read
WithState(t) ==
    [Mgr EXCEPT !.active_workflows = Insert(@, t.instance_id, t.state[1])]

\* the action of that id on the node the state is at runs a server action
\* that the node names by a target
RunsServerAction(state, action_id) ==
    /\ ~state.completed
    /\ state.workflow_id \in DOMAIN workflows
    /\ state.current_node_id \in DOMAIN workflows[state.workflow_id].nodes
    /\ LET actions == workflows[state.workflow_id]
                          .nodes[state.current_node_id].actions
           k == FindAction(actions, action_id)
       IN /\ k # 0
          /\ actions[k].action_type = "RunServerAction"
          /\ actions[k].target # None

\* process_action reads the state of the instance and the definition; an
\* action that runs a server action goes on to look the action up, any
\* other is worked out on the state read
ProcessActionRead ==
    \E c \in Callers, i \in Instances, a \in LockActionIds :
       LET r == process_action(Mgr, i, a, EmptyMap)
           t == Running("process_action", "write", i, a,
                        << active_workflows[i] >>, << >>, None, r.res)
       IN /\ tasks[c].pc = "returned"
          /\ Free({"active_workflows", "workflows"})
          /\ LockStep(c,
                IF RunsServerAction(active_workflows[i], a)
                THEN [t EXCEPT !.pc = "lock_external"]
                ELSE IF ~r.res.ok THEN Returned(t, r.res)
                ELSE [t EXCEPT !.new_state = << r.M.active_workflows[i] >>],
                Mgr)
          /\ UNCHANGED <<bus, locks>>

\* RunServerAction with a target: external_server_actions is taken; the
\* action is not an external one, so server_action_handlers is looked at
\* next, with external_server_actions held
ProcessActionLockExternal ==
    \E c \in Callers :
       LET r == process_action(WithState(tasks[c]), tasks[c].instance_id,
                               tasks[c].action_id, EmptyMap)
       IN /\ At(c, "process_action", "lock_external")
          /\ IF r.res.ok /\ r.res.tag = "ExternalServerActionStarted"
             THEN /\ LockStep(c, [tasks[c] EXCEPT
                                    !.pc = "write", !.result = r.res,
                                    !.new_state = tasks[c].state], Mgr)
                  /\ UNCHANGED locks
             ELSE /\ LockStep(c, [tasks[c] EXCEPT !.pc = "lock_handlers"], Mgr)
                  /\ locks' = Acquire(c, {"external_server_actions"})
          /\ UNCHANGED bus

\* server_action_handlers is taken and looked at; both mutexes are released
ProcessActionLockHandlers ==
    \E c \in Callers :
       LET r == process_action(WithState(tasks[c]), tasks[c].instance_id,
                               tasks[c].action_id, EmptyMap)
       IN /\ At(c, "process_action", "lock_handlers")
          /\ LockStep(c,
                IF r.res.ok
                THEN [tasks[c] EXCEPT !.pc = "write", !.result = r.res,
                                      !.new_state = tasks[c].state]
                ELSE Returned(tasks[c], r.res),
                Mgr)
          /\ locks' = Release(c)
          /\ UNCHANGED bus

\* update_state writes the state the call has worked out
ProcessActionWrite ==
    \E c \in Callers :
       LET written == update_state(Mgr, tasks[c].instance_id,
                                   tasks[c].new_state[1])
       IN /\ At(c, "process_action", "write")
          /\ LockStep(c,
                Returned(tasks[c], IF written.ok THEN tasks[c].result
                                   ELSE Err("WorkflowNotFound")),
                written.M)
          /\ UNCHANGED <<bus, locks>>

\* execute_server_action takes server_action_handlers and keeps it, the
\* handler being a reference into the map; it clones the definition and
\* the state and calls the handler
ExecuteStart ==
    \E c \in Callers, i \in Instances :
       /\ tasks[c].pc = "returned"
       /\ Free({"server_action_handlers", "workflows", "active_workflows"})
       /\ "sa" \in server_action_handlers
       /\ LockStep(c, Running("execute_server_action", "handler", i, "sa",
                              << active_workflows[i] >>, << >>, None,
                              Ok("Unit", None)), Mgr)
       /\ locks' = Acquire(c, {"server_action_handlers"})
       /\ UNCHANGED bus

\* the handler returns; process_server_action_results works on the state
\* read before, and starts the nested workflow of StartAndWaitWorkflow
ExecuteHandler ==
    \E c \in Callers, outcome \in LockOutcomes :
       LET t == tasks[c]
           state == t.state[1]
       IN /\ At(c, "execute_server_action", "handler")
          /\ IF outcome.tag = "StartAndWaitWorkflow"
             THEN LET started == start_workflow(Mgr, outcome.definition_id,
                                                state.user_id, outcome.inputs)
                  IN /\ Free({"workflows", "active_workflows", "event_manager"})
                     /\ started.res.ok
                     /\ LockStep(c, [t EXCEPT !.pc = "record_waiting",
                                              !.outcome = outcome,
                                              !.result = started.res],
                                 started.M)
                     /\ bus' = bus \o started.events
             ELSE LET applied == process_server_action_results(Mgr, outcome,
                                     workflows[state.workflow_id],
                                     t.instance_id, state)
                  IN /\ applied.res.ok
                     /\ LockStep(c, [t EXCEPT !.pc = "write_back",
                                              !.outcome = outcome,
                                              !.new_state = << applied.state >>],
                                 applied.M)
                     /\ UNCHANGED bus
          /\ UNCHANGED locks

\* the waiter is recorded under the id of the nested instance
ExecuteRecord ==
    \E c \in Callers :
       LET t == tasks[c]
       IN /\ At(c, "execute_server_action", "record_waiting")
          /\ LockStep(c, [t EXCEPT !.pc = "write_back",
                                   !.new_state =
                                       << [t.state[1] EXCEPT !.waiting = TRUE] >>],
                      [Mgr EXCEPT !.waiting_for_response =
                          Insert(@, t.result.val,
                                 <<t.instance_id, t.outcome.inject_response_as>>)])
          /\ UNCHANGED <<bus, locks>>

\* the state is written back, WorkflowUpdated is emitted and the call
\* returns, which releases server_action_handlers
ExecuteWriteBack ==
    \E c \in Callers :
       LET t == tasks[c]
           written == update_state(Mgr, t.instance_id, t.new_state[1])
           resource == get_workflow_resource(written.M, t.instance_id)
       IN /\ At(c, "execute_server_action", "write_back")
          /\ LockStep(c, Returned(t, IF written.ok /\ resource.some
                                     THEN Ok("Result", t.outcome.tag)
                                     ELSE Err("WorkflowNotFound")),
                      written.M)
          /\ bus' = IF written.ok /\ resource.some
                    THEN Append(bus, WorkflowUpdated(t.instance_id))
                    ELSE bus
          /\ locks' = Release(c)

\* check_for_waiting of an instance; its mutexes are taken one after the
\* other within the step
CheckForWaitingCall ==
    \E c \in Callers, i \in Instances :
       LET r == check_for_waiting(Mgr, i, 0)
           resource == get_workflow_resource(Mgr, i)
       IN /\ tasks[c].pc = "returned"
          /\ Free({"active_workflows", "workflows", "waiting_for_response",
                   "waiting_for_predicate", "event_manager"})
          /\ LockStep(c, Running("check_for_waiting", "returned", i, None,
                                 << >>, << >>, None,
                                 IF resource.some /\ resource.completed
                                 THEN Ok("completed", i \in DOMAIN waiting_for_response)
                                 ELSE Ok("pending", FALSE)),
                      r.M)
          /\ bus' = bus \o r.events
          /\ UNCHANGED locks

\* the instances list_user_workflow_resources asks get_workflow_resource for
Listed(user_id) ==
    {i \in Instances : /\ active_workflows[i].user_id = user_id
                       /\ ~active_workflows[i].completed}

\* list_user_workflow_resources takes active_workflows and keeps it over
\* the loop; for the first instance of the user it calls
\* get_workflow_resource, which waits for active_workflows
ListUserWorkflowResources ==
    \E c \in Callers, u \in {"seer", "bot"} :
       /\ tasks[c].pc = "returned"
       /\ Free({"active_workflows"})
       /\ LockStep(c, Running("list_user_workflow_resources",
                              IF Listed(u) = {} THEN "returned"
                              ELSE "get_workflow_resource",
                              0, u, << >>, << >>, None, Ok("Vec", 0)), Mgr)
       /\ locks' = IF Listed(u) = {} THEN locks
                   ELSE Acquire(c, {"active_workflows"})
       /\ UNCHANGED bus

LockNext ==
    \/ RegisterDefinitionLockHandlers
    \/ RegisterDefinitionLockExternal
    \/ RegisterDefinitionCheck
    \/ ProcessActionRead
    \/ ProcessActionLockExternal
    \/ ProcessActionLockHandlers
    \/ ProcessActionWrite
    \/ ExecuteStart
    \/ ExecuteHandler
    \/ ExecuteRecord
    \/ ExecuteWriteBack
    \/ CheckForWaitingCall
    \/ ListUserWorkflowResources

LockSpec == LockInit /\ [][LockNext]_vars

----------------------------------------------------------------------------
(* Properties *)

State(i) == active_workflows[i]

\* the completed flag of the resource of i, as check_for_waiting reads it
ResourceCompleted(M, i) ==
    LET resource == get_workflow_resource(M, i)
    IN resource.some /\ resource.completed

\* a is suspended and b is what it waits for: the instance it started with
\* StartAndWaitWorkflow, or an instance its predicate holds of
SuspendedOn(a, b) ==
    /\ State(a).waiting
    /\ \/ b \in DOMAIN waiting_for_response /\ waiting_for_response[b][1] = a
       \/ /\ a \in DOMAIN waiting_for_predicate
          /\ waiting_for_predicate[a][1].user_id = State(b).user_id

\* this step is a resume of a through the entry waiting_for_response[b]
ResumedByResponse(a, b) ==
    /\ b \in DOMAIN waiting_for_response
    /\ waiting_for_response[b][1] = a
    /\ b \notin DOMAIN waiting_for_response'

\* this step is a resume of a through its entry in waiting_for_predicate
ResumedByPredicate(a) ==
    /\ a \in DOMAIN waiting_for_predicate
    /\ State(a).waiting
    /\ ~active_workflows'[a].waiting
    /\ \A b \in DOMAIN waiting_for_response : ~ResumedByResponse(a, b)

\* C1: when an instance b becomes completed while another instance a is
\* suspended on it, the operation that completes b also resumes a: a is
\* no longer waiting when the operation returns.
C1_CompletionResumesWaiter ==
    [][\A a, b \in Instances :
          (a # b /\ SuspendedOn(a, b)
                 /\ ~ResourceCompleted(Mgr, b) /\ ResourceCompleted(Mgr', b))
          => ~active_workflows'[a].waiting]_vars

C3_PredicateResumeOnce ==
    [][\A a \in Instances :
          (ResumedByPredicate(a) /\ ~State(a).completed
                                 /\ waiting_for_predicate[a][2] # None)
          => LET k == waiting_for_predicate[a][2]
                 u == waiting_for_predicate[a][1].user_id
                 after == active_workflows'[a]
             IN /\ \E c \in Instances :
                      /\ State(c).user_id = u
                      /\ ResourceCompleted(Mgr, c)
                      /\ k \in DOMAIN after.responses
                      /\ after.responses[k] = ToValue(State(c).responses)
                /\ after.node_history =
                       Append(State(a).node_history, State(a).current_node_id)
                /\ a \notin DOMAIN waiting_for_predicate']_vars

\* C4: when one completion resumes a waiter of a predicate, it resumes every
\* waiter whose predicate holds of the same completed instance.
C4_AllWaitersResumed ==
    [][\A a, other \in Instances :
          (/\ ResumedByPredicate(a)
           /\ other \in DOMAIN waiting_for_predicate
           /\ State(other).waiting
           /\ waiting_for_predicate[other][1].user_id =
                  waiting_for_predicate[a][1].user_id)
          => ~active_workflows'[other].waiting]_vars

\* C5: the current node of every instance is a node of its definition.
C5_NodeExists ==
    \A i \in Instances :
       /\ State(i).workflow_id \in DOMAIN workflows
       /\ State(i).current_node_id \in DOMAIN workflows[State(i).workflow_id].nodes

\* C6: no instance is waiting and completed at once.
C6_WaitingNotCompleted ==
    \A i \in Instances : ~(State(i).waiting /\ State(i).completed)

WaitingEntries(i) ==
    Cardinality({b \in DOMAIN waiting_for_response :
                    waiting_for_response[b][1] = i})
    + (IF i \in DOMAIN waiting_for_predicate THEN 1 ELSE 0)

\* C7: a waiting instance is the waiter of exactly one entry of the two
\* suspension tables.
C7_OneWaitingEntry ==
    \A i \in Instances : State(i).waiting => WaitingEntries(i) = 1

\* C8: in every reachable state, process_action on an instance whose stored
\* completed flag is set returns WorkflowAlreadyCompleted for every action
\* id and all inputs, and leaves the manager, the stored instance included,
\* as it was.
C8_CompletedRejectsActions ==
    \A i \in Instances :
       State(i).completed =>
          \A a \in ActionIds, inputs \in InputMaps :
             LET r == process_action(Mgr, i, a, inputs)
             IN /\ r.res = Err("WorkflowAlreadyCompleted")
                /\ r.M = Mgr

\* a process_action call on a completed instance has just been rejected
C8_Witness ==
    /\ last = [op |-> "process_action", tag |-> "WorkflowAlreadyCompleted"]
    /\ \E i \in Instances : State(i).completed /\ State(i).responses = EmptyMap

\* C9: no step changes the current node, the history or the responses of a
\* completed instance.
C9_CompletedIsFrozen ==
    [][\A i \in Instances :
          State(i).completed =>
             /\ active_workflows'[i].current_node_id = State(i).current_node_id
             /\ active_workflows'[i].node_history = State(i).node_history
             /\ active_workflows'[i].responses = State(i).responses]_vars

\* C10: the top of a non-empty node_history is not the current node.
C10_HistoryTopNotCurrent ==
    \A i \in Instances :
       State(i).node_history # << >> =>
          Last(State(i).node_history) # State(i).current_node_id

\* the instance store, the definition registry and both suspension tables
Stores(M) ==
    <<M.active_workflows, M.workflows, M.waiting_for_response,
      M.waiting_for_predicate>>

\* C11: a call of start_workflow, process_action, execute_server_action,
\* show_node or register_workflow_definition that returns an error leaves
\* the instance store, the definition registry and both suspension tables
\* as they were before the call.
C11_ErrorsChangeNothing ==
    LET Unchanged(r) == ~r.res.ok => Stores(r.M) = Stores(Mgr)
    IN /\ \A w \in WorkflowIds, u \in Users, inputs \in InputMaps :
             Unchanged(start_workflow(Mgr, w, u, inputs))
       /\ \A i \in Instances, a \in ActionIds, inputs \in InputMaps :
             Unchanged(process_action(Mgr, i, a, inputs))
       /\ \A i \in Instances, a \in HandlerIds, outcome \in HandlerOutcomes :
             Unchanged(execute_server_action(Mgr, i, active_workflows[i].workflow_id,
                                             a, outcome))
       /\ \A i \in Instances, n \in ShowNodeTargets :
             Unchanged(show_node(Mgr, i, n))
       /\ \A u \in Owners, d \in CreateDefinitions :
             \A nodes_iter \in IterationOrders(d) :
                Unchanged(register_workflow_definition(Mgr, u, d, nodes_iter))

\* C12: when a WorkflowService::process_action request returns an error,
\* the stored state of its instance (responses, current_node_id,
\* node_history, completed, waiting) is what it was before the request,
\* also when the manager's process_action succeeded and the
\* execute_server_action that followed failed.
C12_FailedRequestChangesNothing ==
    \A i \in Instances, a \in ActionIds, inputs \in InputMaps,
       outcome \in HandlerOutcomes :
       LET r == service_process_action(Mgr, i, a, inputs, outcome)
       IN ~r.res.ok => r.M.active_workflows[i] = State(i)

\* the instance exists, is not completed, and its current node has the action
ActionExists(i, a) ==
    /\ ~State(i).completed
    /\ State(i).workflow_id \in DOMAIN workflows
    /\ LET workflow == workflows[State(i).workflow_id]
       IN /\ State(i).current_node_id \in DOMAIN workflow.nodes
          /\ FindAction(workflow.nodes[State(i).current_node_id].actions, a) # 0

\* the stored responses of i in M hold every input
InputsStored(M, i, inputs) ==
    \A k \in DOMAIN inputs :
       /\ k \in DOMAIN M.active_workflows[i].responses
       /\ M.active_workflows[i].responses[k] = inputs[k]

\* C13 as stated: after every process_action call on an existing, not
\* completed instance whose action exists on the current node, the inputs
\* of the call are in the stored responses of the instance, whatever the
\* outcome of the dispatch.
C13_InputsAlwaysPersist ==
    \A i \in Instances, a \in ActionIds, inputs \in InputMaps :
       ActionExists(i, a)
       => InputsStored(process_action(Mgr, i, a, inputs).M, i, inputs)

\* C13: after a process_action call on an existing, not completed instance
\* whose action exists on the current node, the inputs of the call are in
\* the stored responses of the instance when the call returns Ok, and the
\* manager is what it was before the call when it returns an error.
C13_InputsPersistOnSuccess ==
    \A i \in Instances, a \in ActionIds, inputs \in InputMaps :
       ActionExists(i, a)
       => LET r == process_action(Mgr, i, a, inputs)
          IN IF r.res.ok THEN InputsStored(r.M, i, inputs) ELSE r.M = Mgr

\* a process_action call with inputs has returned Ok and an instance holds
\* the input
C13_Witness ==
    /\ last = [op |-> "process_action", tag |-> "Ok"]
    /\ \E i \in Instances : InputsStored(Mgr, i, [x |-> JStr("a")])

\* C14: when the handler that execute_server_action invokes returns an
\* error, the call returns ServerActionFailed with the handler's message,
\* the manager (the stored state of the instance and both suspension
\* tables) is what it was before the call, and no event is emitted.
C14_HandlerErrorChangesNothing ==
    \A i \in Instances, a \in HandlerIds :
       (a \in server_action_handlers /\ State(i).workflow_id \in DOMAIN workflows)
       => LET r == execute_server_action(Mgr, i, State(i).workflow_id, a,
                                         HandlerError)
          IN /\ ~r.res.ok
             /\ r.res.tag = "ServerActionFailed"
             /\ r.res.val = HandlerError.message
             /\ r.M = Mgr
             /\ r.events = << >>

\* an execute_server_action call whose handler returned an error has returned
C14_Witness ==
    last = [op |-> "execute_server_action", tag |-> "ServerActionFailed"]

\* the players whose card has a night ability
Staged(g) == {p \in DOMAIN g.players : g.players[p].night_ability}

DistinctPriorities(g) ==
    \A p \in Staged(g), q \in Staged(g) :
       p # q => g.players[p].priority # g.players[q].priority

\* the TurnStarted events sent so far, in the order they were sent
Started == SelectSeq(game_events, LAMBDA e : e.tag = "TurnStarted")

\* C15: when the players with a night ability have pairwise distinct
\* priorities, the TurnStarted events are sent in strictly ascending
\* order of priority, whatever the iteration order of the players map.
C15_AscendingPriority ==
    DistinctPriorities(game)
    => \A i \in DOMAIN Started, j \in DOMAIN Started :
          i < j => game.players[Started[i].player_id].priority
                       < game.players[Started[j].player_id].priority

\* run has returned after three turns of players with distinct priorities
\* that the players map does not hold in ascending order
C15_Witness ==
    /\ run.pc = "returned"
    /\ Len(Started) = 3
    /\ DistinctPriorities(game)
    /\ \E i \in DOMAIN game.players_iter, j \in DOMAIN game.players_iter :
          /\ i < j
          /\ game.players[game.players_iter[i]].priority
                 > game.players[game.players_iter[j]].priority

\* C16: every TurnStarted{p} is followed by TurnExpired{p} before any
\* other turn event: the event sent next after TurnStarted{p} is
\* TurnExpired{p}, and while none has been sent yet the turn of p is still
\* running.
C16_StartedThenExpired ==
    \A k \in DOMAIN game_events :
       game_events[k].tag = "TurnStarted"
       => IF k < Len(game_events)
          THEN game_events[k + 1] = TurnExpired(game_events[k].player_id)
          ELSE /\ run.turn # << >>
               /\ run.turn[1].player_id = game_events[k].player_id

\* an instance of the definition owned by the player is in the store
InstanceOf(p, definition) ==
    \E i \in Instances : /\ active_workflows[i].user_id = p
                         /\ active_workflows[i].workflow_id = definition

\* C17: by the time TurnExpired{p} is sent, the night ability of p has
\* been invoked in that turn, and an instance of the definition it
\* returned, owned by p, has been started; when it returned None there is
\* no instance of p.
C17_SchedulerStartsWorkflow ==
    \A k \in DOMAIN game_events :
       game_events[k].tag = "TurnExpired"
       => LET p == game_events[k].player_id
              definition == night_ability(game, p)
          IN IF definition.some
             THEN InstanceOf(p, definition.v)
             ELSE \A i \in Instances : active_workflows[i].user_id # p

\* C18: once register_cards has returned, the register hook of each role
\* card that a player or a middle holds has been invoked once, and no
\* other hook has been invoked.
C18_HookOncePerRole ==
    run.pc # "register_cards"
    => \A c \in RoleCards :
          register_calls[c] =
             IF c.register /\ \E id \in DOMAIN all_cards(game) :
                                 all_cards(game)[id] = c
             THEN 1 ELSE 0

\* C19: run returns, and by then TurnStarted has been sent once for each
\* player whose card has a night ability and for no other player.
C19_RunTerminates ==
    <>(/\ run.pc = "returned"
       /\ \A p \in DOMAIN game.players :
             Cardinality({k \in DOMAIN Started : Started[k].player_id = p})
                = IF p \in Staged(game) THEN 1 ELSE 0)

\* a user that owns no definition
OtherUsers == {"eve"}

\* C20: a second registration of a raw id by its owner succeeds, returns the
\* id the first returned and leaves one definition, the later one, under
\* it; a registration of the same raw id by another user returns
\* ServerActionFailed and leaves the registry as it was.
C20_Reregistration ==
    \A u \in Owners, d1 \in CreateDefinitions, d2 \in CreateDefinitions :
       \A iter1 \in IterationOrders(d1), iter2 \in IterationOrders(d2) :
          LET first == register_workflow_definition(Mgr, u, d1, iter1)
              second == register_workflow_definition(first.M, u, d2, iter2)
          IN (first.res.ok /\ d1.id = d2.id)
             => /\ second.res.ok
                /\ second.res.val = first.res.val
                /\ DOMAIN second.M.workflows = DOMAIN first.M.workflows
                /\ second.M.workflows[second.res.val].nodes = d2.nodes
                /\ \A v \in OtherUsers :
                      LET other == register_workflow_definition(first.M, v, d2, iter2)
                      IN /\ ~other.res.ok
                         /\ other.res.tag = "ServerActionFailed"
                         /\ other.M.workflows = first.M.workflows

\* the ids the definition declares that are no handler's and that the user
\* has no entry for in external_server_actions
Unknown(u, d) ==
    {id \in {d.server_actions[k].id : k \in DOMAIN d.server_actions} :
        /\ id \notin server_action_handlers
        /\ <<u, id>> \notin external_server_actions}

\* C21: register_workflow_definition of a definition that declares a server
\* action id that is neither a handler's nor in the registering user's
\* external actions returns ServerActionFailed with the message naming that
\* id, and leaves the definition registry, and the rest of the manager, as
\* it was before the call.
C21_UnknownActionRejected ==
    \A u \in RegistryUsers, d \in ActionDefinitions :
       Unknown(u, d) # {}
       => LET r == register_workflow_definition(Mgr, u, d, d.node_order)
          IN /\ ~r.res.ok
             /\ r.res.tag = "ServerActionFailed"
             /\ \E id \in Unknown(u, d) : r.res.val = NotRegistered(id)
             /\ r.M.workflows = workflows
             /\ r.M = Mgr

\* a registration has just been rejected for an unregistered action while
\* the registry holds a definition
C21_Witness ==
    /\ last.op = "register_workflow_definition"
    /\ last.tag = "ServerActionFailed"
    /\ \E id \in DeclaredIds : last.val = NotRegistered(id)
    /\ DOMAIN workflows # {}

\* the user has registered no external server action
NoExternal(M, u) == \A e \in M.external_server_actions : e[1] # u

\* C22 as stated: after register_external_server_action(u, a), the user u
\* registers a definition that declares the id a, and another user, who has
\* registered no external action, does not, no handler being registered for a.
C22_ExternalRawIdAccepted ==
    \A u \in RegistryUsers, a \in ExternalIds :
       LET after == register_external_server_action(Mgr, u, a).M
           d == ActionDefinition(a)
       IN a \notin after.server_action_handlers
          => /\ register_workflow_definition(after, u, d, d.node_order).res.ok
             /\ \A v \in RegistryUsers \ {u} :
                   NoExternal(after, v)
                   => ~register_workflow_definition(after, v, d, d.node_order).res.ok

\* C22: after register_external_server_action(u, a) has returned the id f,
\* the user u registers a definition that declares the id f, no handler
\* being registered for f, and the registry then holds it; another user,
\* who has registered no external action, is refused with ServerActionFailed
\* naming f, and the registry stays as it was.
C22_ExternalReturnedIdAccepted ==
    \A u \in RegistryUsers, a \in ExternalIds :
       LET external == register_external_server_action(Mgr, u, a)
           after == external.M
           f == external.res.val
           d == ActionDefinition(f)
           own == register_workflow_definition(after, u, d, d.node_order)
       IN f \notin after.server_action_handlers
          => /\ own.res.ok
             /\ own.res.val \in DOMAIN own.M.workflows
             /\ own.M.workflows[own.res.val].server_actions = d.server_actions
             /\ own.M.workflows[own.res.val].owner_id = u
             /\ \A v \in RegistryUsers \ {u} :
                   NoExternal(after, v)
                   => LET other == register_workflow_definition(after, v, d,
                                                                d.node_order)
                      IN /\ ~other.res.ok
                         /\ other.res.tag = "ServerActionFailed"
                         /\ other.res.val = NotRegistered(f)
                         /\ other.M = after

\* a user has registered an external server action and then a definition
\* that declares the returned id, for which there is no handler
C22_Witness ==
    /\ last.op = "register_workflow_definition"
    /\ last.tag = "Id"
    /\ \E u \in RegistryUsers, a \in ExternalIds :
          /\ <<u, final_action_id(u, a)>> \in external_server_actions
          /\ final_action_id(u, a) \notin server_action_handlers
          /\ last.val = final_workflow_id(u, "act")
          /\ workflows[last.val].server_actions["key"].id = final_action_id(u, a)

RECURSIVE Back(_, _, _)
\* PreviousNode n times on the instance i: the manager after them, the nodes
\* they left, first to last, and whether each returned Ok
Back(M, i, n) ==
    IF n = 0 THEN [M |-> M, left |-> << >>, ok |-> TRUE]
    ELSE LET r == process_action(M, i, "back", EmptyMap)
             rest == Back(r.M, i, n - 1)
         IN [M |-> rest.M,
             left |-> << M.active_workflows[i].current_node_id >> \o rest.left,
             ok |-> r.res.ok /\ rest.ok]

RECURSIVE Forth(_, _, _)
\* NextNode to each of the targets, last to first
Forth(M, i, targets) ==
    IF targets = << >> THEN [M |-> M, ok |-> TRUE]
    ELSE LET r == process_action(M, i, ToNode(targets[Len(targets)]), EmptyMap)
             rest == Forth(r.M, i, SubSeq(targets, 1, Len(targets) - 1))
         IN [M |-> rest.M, ok |-> r.res.ok /\ rest.ok]

\* C23: for an instance whose node_history holds at least N nodes,
\* PreviousNode N times and then NextNode N times, to the nodes the
\* PreviousNode steps left, last left first, all return Ok and leave
\* current_node_id and node_history as they were before the 2N steps;
\* PreviousNode on an empty history returns InvalidState.
C23_HistoryRoundTrip ==
    \A i \in Instances :
       /\ \A N \in 1..Len(State(i).node_history) :
             LET back == Back(Mgr, i, N)
                 forth == Forth(back.M, i, back.left)
                 after == forth.M.active_workflows[i]
             IN /\ back.ok
                /\ Len(back.M.active_workflows[i].node_history)
                       = Len(State(i).node_history) - N
                /\ forth.ok
                /\ after.current_node_id = State(i).current_node_id
                /\ after.node_history = State(i).node_history
       /\ State(i).node_history = << >>
             => LET r == process_action(Mgr, i, "back", EmptyMap)
                IN r.res = Err("InvalidState") /\ r.M = Mgr

\* the latest calls were MaxTrip PreviousNode steps and then NextNode steps
\* to the nodes they left, last left first, all Ok
C23_Witness ==
    /\ last.op = "process_action"
    /\ Len(last.trail) = 2 * MaxTrip
    /\ \A k \in 1..MaxTrip :
          /\ last.trail[k].action = "back"
          /\ last.trail[k].ok
          /\ last.trail[MaxTrip + k].action
                 = ToNode(last.trail[MaxTrip + 1 - k].from)
          /\ last.trail[MaxTrip + k].ok
    /\ \E i \in Instances : Len(State(i).node_history) = MaxTrip

RECURSIVE Leads(_)
\* the paths that lead from the value j to a value through objects only
Leads(j) ==
    {<< >>} \cup (IF j.t = "obj"
                  THEN UNION {{<<k>> \o path : path \in Leads(j.v[k])} :
                                 k \in DOMAIN j.v}
                  ELSE {})

RECURSIVE ValueAt(_, _)
\* the value a path that leads from j to a value leads to
ValueAt(j, path) ==
    IF path = << >> THEN j ELSE ValueAt(j.v[Head(path)], Tail(path))

\* the dotted lookup finds a value: the path leads to one from the
\* responses, starting at the top-level key that is its first segment
Finds(responses, path) == path \in Leads(JObj(responses))

\* the stated meaning of a condition
Holds(condition, responses) ==
    CASE condition.tag \in {"Always", "None"} -> TRUE
      [] condition.tag = "ResponseExists" ->
            Finds(responses, condition.field)
      [] condition.tag = "ResponseEquals" ->
            /\ Finds(responses, condition.field)
            /\ JEq(ValueAt(JObj(responses), condition.field), condition.value)
      [] condition.tag = "ResponseListNotEmpty" ->
            /\ Finds(responses, condition.field)
            /\ ValueAt(JObj(responses), condition.field).t = "arr"
            /\ Len(ValueAt(JObj(responses), condition.field).v) >= 1

\* C24: evaluate_node_condition is true of a node and an instance exactly
\* when the node's condition holds of the instance's responses: Always and
\* no condition hold; ResponseExists holds when the dotted lookup finds a
\* value, ResponseEquals when it finds the given value, ResponseListNotEmpty
\* when it finds an array with an element; the lookup starts at the
\* top-level key of the first segment and descends through objects only.
C24_ConditionSemantics ==
    \A i \in Instances :
       \A n \in DOMAIN workflows[State(i).workflow_id].nodes :
          LET node == workflows[State(i).workflow_id].nodes[n]
          IN evaluate_node_condition(node, State(i))
                = Holds(node.condition, State(i).responses)

\* a condition whose path has to pass through a scalar has just been
\* evaluated to false, of responses in which a shorter path is found
C24_Witness ==
    /\ last.op = "evaluate_node_condition"
    /\ last.result = "false"
    /\ \E i \in Instances :
          LET condition == workflows[State(i).workflow_id].nodes["child"].condition
          IN /\ condition.tag = "ResponseExists"
             /\ condition.field = <<"a", "b", "b">>
             /\ Finds(State(i).responses, <<"a", "b">>)
             /\ ValueAt(JObj(State(i).responses), <<"a", "b">>).t = "str"

\* the order in which the nodes of a stored definition were inserted: the
\* order of the document it was registered from
InsertionOrder(definition) ==
    (CHOOSE d \in CreateDefinitions :
        d.id = definition.id /\ d.nodes = definition.nodes).node_order

\* the first node, in the order of insertion, that is a child of the parent
\* and whose condition holds of the state; None when there is none
FirstInserted(workflow, parent_node, state) ==
    LET order == InsertionOrder(workflow)
        valid == {k \in DOMAIN order :
                     /\ workflow.nodes[order[k]].parent_id # None
                     /\ workflow.nodes[order[k]].parent_id = parent_node.id
                     /\ evaluate_node_condition(workflow.nodes[order[k]], state)}
    IN IF valid = {} THEN None
       ELSE order[CHOOSE k \in valid : \A j \in valid : k <= j]

ChildInputs == {EmptyMap, [k |-> JStr("a")]}

\* C25: NextNode without a target shows the first node, in the order the
\* nodes were inserted in the definition, that is a child of the current
\* node and whose condition holds of the state, also when several children
\* have a true condition, and returns NodeNotFound when there is none.
C25_FirstInsertedChild ==
    \A i \in Instances, inputs \in ChildInputs :
       ActionExists(i, "next")
       => LET workflow == workflows[State(i).workflow_id]
              merged == [State(i) EXCEPT !.responses = Extend(@, inputs)]
              first == FirstInserted(workflow,
                                     workflow.nodes[State(i).current_node_id],
                                     merged)
              r == process_action(Mgr, i, "next", inputs)
          IN IF first = None THEN r.res = Err("NodeNotFound")
             ELSE r.res.ok /\ r.res.tag = "ShowNode" /\ r.res.val = first

\* the server action id an action of a definition stands for
Resolved(workflow, action) ==
    IF action.target # None
    THEN IF action.target \in DOMAIN workflow.server_actions
         THEN workflow.server_actions[action.target].id
         ELSE action.target
    ELSE action.id

IsExternal(id) == \E e \in external_server_actions : e[2] = id

\* C26: for a RunServerAction action that stands for the id r, with or
\* without a target, process_action returns ServerActionStarted only with
\* action_id = r and only if r has a handler and is not external, and it
\* returns ServerActionNotFound when r neither is external nor has a handler.
C26_ServerActionResolved ==
    \A i \in Instances, a \in RunActionIds :
       ActionExists(i, a)
       => LET workflow == workflows[State(i).workflow_id]
              actions == workflow.nodes[State(i).current_node_id].actions
              action == actions[FindAction(actions, a)]
              r == Resolved(workflow, action)
              called == process_action(Mgr, i, a, EmptyMap)
          IN action.action_type = "RunServerAction"
             => /\ (called.res.ok /\ called.res.tag = "ServerActionStarted")
                      => /\ called.res.val = r
                         /\ r \in server_action_handlers
                         /\ ~IsExternal(r)
                /\ (~IsExternal(r) /\ r \notin server_action_handlers)
                      => called.res = Err("ServerActionNotFound")

\* C27: after an execute_server_action call whose handler returned
\* CancelWorkflow, the completed flag of the instance is set and every
\* process_action on the instance returns WorkflowAlreadyCompleted.
C27_CancelCompletes ==
    \A i \in Instances, a \in HandlerIds :
       LET r == execute_server_action(Mgr, i, State(i).workflow_id, a,
                                      CancelWorkflow)
       IN r.res.ok
          => /\ r.M.active_workflows[i].completed
             /\ \A b \in ActionIds, inputs \in InputMaps :
                   LET later == process_action(r.M, i, b, inputs)
                   IN ~later.res.ok /\ later.res.tag = "WorkflowAlreadyCompleted"

\* the call that left r behind handed the event to emit_event
Emits(r, event) == \E k \in DOMAIN r.events : r.events[k] = event

\* the call that left r behind returned Ok and emitted WorkflowUpdated for
\* every instance whose stored state it changed
UpdatesEmitted(r) ==
    r.res.ok
    => \A i \in Instances :
          r.M.active_workflows[i] # State(i) => Emits(r, WorkflowUpdated(i))

\* C28: each call of process_action, execute_server_action, show_node and
\* check_for_waiting that returns Ok emits WorkflowUpdated for every
\* instance whose stored state it has changed.
C28_UpdateEmitted ==
    /\ \A i \in Instances, a \in ActionIds, inputs \in InputMaps :
          UpdatesEmitted(process_action(Mgr, i, a, inputs))
    /\ \A i \in Instances, a \in HandlerIds, outcome \in HandlerOutcomes :
          UpdatesEmitted(execute_server_action(Mgr, i, State(i).workflow_id,
                                               a, outcome))
    /\ \A i \in Instances, n \in ShowNodeTargets :
          UpdatesEmitted(show_node(Mgr, i, n))
    /\ \A i \in Instances :
          \A pick \in PredicatePicks(Mgr, i) :
             UpdatesEmitted(check_for_waiting(Mgr, i, pick))

\* C29: on the event bus, every WorkflowUpdated of an instance comes after
\* the WorkflowStarted of that instance, however the steps of
\* start_workflow are interleaved with the calls of others.
C29_StartedBeforeUpdated ==
    \A k \in DOMAIN bus :
       bus[k][1] = "WorkflowUpdated"
       => \E j \in 1..(k - 1) : bus[j] = WorkflowStarted(bus[k][2])

\* C30: every instance start_workflow has created is in active_workflows,
\* and get_workflow_resource of it does not return NotFound.
C30_InstancesStay ==
    /\ \A i \in Created : i \in Instances
    /\ (last.op = "get_workflow_resource" /\ last.val \in Created)
          => last.tag # "NotFound"

\* the channel of the token has timed out: its sender is still stored and
\* no task awaits its receiver
TimedOut(token) ==
    /\ token \in external_action_responses
    /\ \A i \in DOMAIN tasks :
          ~(tasks[i].call = "external" /\ tasks[i].token = token
                                       /\ tasks[i].pc = "waiting")

\* C31: the timeout of an external server action leaves every instance as
\* it is, and a respond_server_action for the token that arrives after the
\* timeout changes no instance and wakes no task.
C31_TimeoutKeepsInstance ==
    [][/\ (calls' # calls /\ last'.op = "handle_external_server_action"
                          /\ last'.tag = "timeout")
          => active_workflows' = active_workflows
       /\ (calls' # calls /\ last'.op = "respond_server_action"
                          /\ TimedOut(last'.val))
          => /\ active_workflows' = active_workflows
             /\ DOMAIN tasks' = DOMAIN tasks
             /\ \A i \in DOMAIN tasks : tasks'[i].pc = tasks[i].pc]_vars

\* C31: a response has been accepted for a token whose channel had timed
\* out, with the instance of the call still in the store.
C31_Witness ==
    /\ last.op = "respond_server_action"
    /\ last.tag = "Ok"
    /\ \E i \in DOMAIN tasks : /\ tasks[i].call = "external"
                               /\ tasks[i].token = last.val
                               /\ tasks[i].pc = "update"
                               /\ i \in Instances

\* C39: when the result of an external server action cannot be applied,
\* the state put back into the store is the state that was taken out when
\* the response arrived.
C39_FailedResultChangesNothing ==
    [][(calls' # calls /\ last'.op = "handle_external_server_action"
                       /\ last'.tag = "uh oh")
       => active_workflows'[last'.val] = tasks[last'.val].state[1]]_vars

\* C32: a call that writes the state of an instance overwrites the state
\* it has read: no write of another call on the instance lies between its
\* read and its write.
C32_WritesWhatItRead ==
    [][\A c \in Callers :
          (/\ calls' # calls
           /\ last'.val = c
           /\ tasks[c].call \in {"process_action", "execute_server_action"}
           /\ tasks[c].pc \in {"write", "write_back"})
          => active_workflows[tasks[c].instance_id] = tasks[c].state[1]]_vars

\* C33: while the handler of execute_server_action runs, the call holds no
\* mutex of the engine.
C33_HandlerRunsUnlocked ==
    \A c \in Callers :
       (tasks[c].call = "execute_server_action" /\ tasks[c].pc = "handler")
       => Held(c) = {}

\* C34: no call holds two mutexes of the engine at the same time.
C34_OneMutexAtATime ==
    \A c \in Callers : Cardinality(Held(c)) <= 1

\* C35: register_workflow_definition and process_action never wait for
\* each other: there is no state in which each needs a mutex the other
\* holds.
C35_NoDeadlock ==
    \A c, d \in Callers :
       ~(/\ tasks[c].call = "register_workflow_definition"
         /\ tasks[d].call = "process_action"
         /\ \E m \in Needs(tasks[c]) : locks[m] = d
         /\ \E m \in Needs(tasks[d]) : locks[m] = c)

\* C37: list_user_workflow_resources never waits for a mutex that it holds
\* itself.
C37_ListReturns ==
    \A c \in Callers :
       tasks[c].call = "list_user_workflow_resources"
       => \A m \in Needs(tasks[c]) : locks[m] # c

\* C38: when every call has returned, no instance waits for a nested
\* instance whose completion check_for_waiting has already observed
\* without finding the waiter.
C38_NoLostWakeUp ==
    \A c \in Callers, b \in DOMAIN waiting_for_response :
       ~(/\ \A d \in Callers : tasks[d].pc = "returned"
         /\ tasks[c].call = "check_for_waiting"
         /\ tasks[c].instance_id = b
         /\ tasks[c].result.tag = "completed"
         /\ tasks[c].result.val = FALSE
         /\ waiting_for_response[b][1] \in Instances
         /\ active_workflows[waiting_for_response[b][1]].waiting)

\* C36: a request made through process_workflow_action returns: no
\* request is left holding the GameState mutex that the handler it runs
\* waits for.
C36_RequestReturns ==
    game_lock = None

\* the turn of the player has started and has not expired
TurnOpen(p) ==
    \E k \in DOMAIN game_events :
       /\ game_events[k] = TurnStarted(p)
       /\ \A j \in DOMAIN game_events : j > k => game_events[j] # TurnExpired(p)

\* C40: submit_action invokes the night ability of a player only while
\* the turn of that player is open.
C40_AbilityWithinTurn ==
    [][\A p \in DOMAIN game.players :
          (p \notin subscribers.submitted /\ p \in subscribers'.submitted)
          => TurnOpen(p)]_vars

====
